---- MODULE Spec2Model ----
(***************************************************************************)
(* MCP Lambda handler: the JSON-RPC request dispatcher                     *)
(* (service/mcp_lambda_handler/mcp_lambda_handler.py), its request models  *)
(* (models.py), the DynamoDB session store (session.py) and the registered *)
(* tool `math` (service/handlers/mcp.py).                                   *)
(*                                                                         *)
(* One Lambda invocation is one synchronous pass through handle_request,   *)
(* so every request action below is the whole handler run on one event.    *)
(* Strings stand for Python str/None values; None is the marker below.     *)
(***************************************************************************)
EXTENDS Integers, Sequences, FiniteSets, TLC

VARIABLES
    store,        \* DynamoDB table: session_id -> item
    now,          \* time.time(), in seconds
    issued,       \* number of uuid4 session ids minted so far
    session_id,   \* MCPLambdaHandler.session_id (ambient, per handler instance)
    request_id,   \* MCPLambdaHandler.request_id
    req,          \* the event handled last (with the environment's choices for it)
    resp,         \* the response returned for it
    invoked,      \* tool callables invoked while handling it, in order
    storeCalls,   \* DynamoDB table calls made while handling it, in order
    storeBefore,  \* the table as that invocation found it
    granted,      \* history: <<s, t>> for each session id s an initialize returned at time t
    deleted,      \* history: the session ids a DELETE removed from the table
    input,        \* the arguments a function of the code is applied to on its own
    output,       \* what that function returned
    workers       \* concurrent invocations: each one's position between table calls

vars == <<store, now, issued, session_id, request_id, req, resp, invoked, storeCalls,
          storeBefore, granted, deleted, input, output, workers>>

----------------------------------------------------------------------------
(* Bounds of the model *)

MaxSessions == 1
MaxTicks == 2

(* The clock advances in steps of one day. *)
TickSeconds == 24 * 60 * 60

----------------------------------------------------------------------------
(* constants.py *)

CONTENT_TYPE_JSON == "application/json"
MCP_VERSION == "0.6"
MCP_PROTOCOL_VERSION == "2024-11-05"

ERROR_PARSE == -32700
ERROR_INVALID_REQUEST == -32600
ERROR_METHOD_NOT_FOUND == -32601
ERROR_INVALID_PARAMS == -32602
ERROR_INTERNAL == -32603
ERROR_SERVER == -32000

(* http.HTTPStatus values used by the handler *)
HTTP_OK == 200
HTTP_ACCEPTED == 202
HTTP_NO_CONTENT == 204
HTTP_BAD_REQUEST == 400
HTTP_NOT_FOUND == 404
HTTP_INTERNAL_SERVER_ERROR == 500

----------------------------------------------------------------------------
(* Python values *)

None == "<None>"

(* Truthiness of an Optional[str]: None and '' are falsy. *)
Truthy(s) == s # None /\ s # ""

(* A JSON value with its runtime type: t is type(v).__name__, i the number *)
(* held by an int/bool, s the text held by a str.                          *)
PyInt(n) == [t |-> "int", i |-> n, s |-> ""]
PyStr(x) == [t |-> "str", i |-> 0, s |-> x]
PyBool(b) == [t |-> "bool", i |-> IF b THEN 1 ELSE 0, s |-> ""]
(* A float with one decimal place: i holds the value in tenths (3.5 is 35). *)
PyFloat(tenths) == [t |-> "float", i |-> tenths, s |-> ""]
PyNone == [t |-> "NoneType", i |-> 0, s |-> ""]
(* float('inf'), which the JSON parser accepts as Infinity *)
PyInf == [t |-> "float", i |-> 0, s |-> "inf"]
(* A list or a dict: s holds its repr, '[]' and '{}' being the empty ones. *)
PyList(text) == [t |-> "list", i |-> 0, s |-> text]
PyDict(text) == [t |-> "dict", i |-> 0, s |-> text]
(* The member of TestEnum with the given name *)
PyEnum(member) == [t |-> "TestEnum", i |-> 0, s |-> member]

(* A Python dict as a function from its keys. *)
EmptyDict == [k \in {} |-> PyNone]

(* Session data documents: {} and {'result': n}, as sets of key/value pairs. *)
NoData == {}
ResultData(n) == {<<"result", n>>}

----------------------------------------------------------------------------
(* session.py: DynamoDBSessionStore.  Each operation takes the table, the  *)
(* set `faults` of table calls that raise during this request, and returns *)
(* its return value, the table afterwards and the table calls it made.     *)

Absent == 0 - 1

(* uuid.uuid4(): the n-th identifier minted; identifiers never repeat. *)
uuid4(n) == "sid-" \o ToString(n)

SESSION_TTL == 24 * 60 * 60

HasItem(tbl, sid) == sid \in DOMAIN tbl

put_item(tbl, sid, item) ==
    [k \in DOMAIN tbl \cup {sid} |-> IF k = sid THEN item ELSE tbl[k]]

(* A faulty DeleteItem that leaves the item in the table. *)
delete_item_kept(tbl, sid) == tbl

delete_item(tbl, sid) ==
    [k \in DOMAIN tbl \ {sid} |-> tbl[k]]

(* A faulty UpdateItem that merges the new document into the stored one. *)
update_item_merge(tbl, sid, data) ==
    IF HasItem(tbl, sid)
    THEN [tbl EXCEPT ![sid].data = tbl[sid].data \cup data]
    ELSE put_item(tbl, sid, [expires_at |-> Absent, created_at |-> Absent, data |-> data])

(* UpdateItem with SET #data = :data: writes the one attribute, creating   *)
(* the item (key and data only) when the key has none.                     *)
update_item(tbl, sid, data) ==
    IF HasItem(tbl, sid)
    THEN [tbl EXCEPT ![sid].data = data]
    ELSE put_item(tbl, sid, [expires_at |-> Absent, created_at |-> Absent, data |-> data])

create_session(tbl, n, t, faults) ==
    LET sid == uuid4(n)
        item == [expires_at |-> t + SESSION_TTL, created_at |-> t, data |-> NoData]
    IN IF "put_item" \in faults
       THEN [raised |-> TRUE, ret |-> None, store |-> tbl, calls |-> <<"put_item">>]
       ELSE [raised |-> FALSE, ret |-> sid, store |-> put_item(tbl, sid, item),
             calls |-> <<"put_item">>]

delete_session(tbl, sid, faults) ==
    IF "delete_item" \in faults
    THEN [ret |-> FALSE, store |-> tbl, calls |-> <<"delete_item">>]
    ELSE [ret |-> TRUE, store |-> delete_item(tbl, sid), calls |-> <<"delete_item">>]

(* item.get('expires_at', 0) *)
ExpiresAt(item) == IF item.expires_at = Absent THEN 0 ELSE item.expires_at

(* A faulty get_session that treats the expiry instant itself as expired   *)
(* (<= where the code compares with <).                                    *)
get_session_boundary(tbl, sid, t, faults) ==
    IF "get_item" \in faults
    THEN [found |-> FALSE, ret |-> NoData, store |-> tbl, calls |-> <<"get_item">>]
    ELSE IF ~HasItem(tbl, sid)
    THEN [found |-> FALSE, ret |-> NoData, store |-> tbl, calls |-> <<"get_item">>]
    ELSE IF ExpiresAt(tbl[sid]) <= t
    THEN LET Expired(d) == [found |-> FALSE, ret |-> NoData, store |-> d.store,
                            calls |-> <<"get_item">> \o d.calls]
         IN Expired(delete_session(tbl, sid, faults))
    ELSE [found |-> TRUE, ret |-> tbl[sid].data, store |-> tbl, calls |-> <<"get_item">>]

(* A faulty get_session that never compares expires_at with the clock. *)
get_session_unexpiring(tbl, sid, t, faults) ==
    IF "get_item" \in faults
    THEN [found |-> FALSE, ret |-> NoData, store |-> tbl, calls |-> <<"get_item">>]
    ELSE IF ~HasItem(tbl, sid)
    THEN [found |-> FALSE, ret |-> NoData, store |-> tbl, calls |-> <<"get_item">>]
    ELSE [found |-> TRUE, ret |-> tbl[sid].data, store |-> tbl, calls |-> <<"get_item">>]

(* ret is the item's data, found is FALSE when get_session returns None. *)
get_session(tbl, sid, t, faults) ==
    IF "get_item" \in faults
    THEN [found |-> FALSE, ret |-> NoData, store |-> tbl, calls |-> <<"get_item">>]
    ELSE IF ~HasItem(tbl, sid)
    THEN [found |-> FALSE, ret |-> NoData, store |-> tbl, calls |-> <<"get_item">>]
    ELSE IF ExpiresAt(tbl[sid]) < t
    THEN LET Expired(d) == [found |-> FALSE, ret |-> NoData, store |-> d.store,
                            calls |-> <<"get_item">> \o d.calls]
         IN Expired(delete_session(tbl, sid, faults))
    ELSE [found |-> TRUE, ret |-> tbl[sid].data, store |-> tbl, calls |-> <<"get_item">>]

update_session(tbl, sid, data, faults) ==
    IF "update_item" \in faults
    THEN [ret |-> FALSE, store |-> tbl, calls |-> <<"update_item">>]
    ELSE [ret |-> TRUE, store |-> update_item(tbl, sid, data), calls |-> <<"update_item">>]

----------------------------------------------------------------------------
(* models.py: the event models *)

(* MCPMethod *)
INITIALIZE == "initialize"
NOTIFICATION == "notification"
TOOLS_LIST == "tools/list"
TOOLS_CALL == "tools/call"
PING == "ping"
MCPMethod == {INITIALIZE, NOTIFICATION, TOOLS_LIST, TOOLS_CALL, PING}

Invalid == "<ValueError>"

startswith(v, prefix) ==
    Len(v) >= Len(prefix) /\ SubSeq(v, 1, Len(prefix)) = prefix

(* A faulty validator without the notifications/ prefix rule. *)
validate_method_exact(v) ==
    IF v = None THEN Invalid
    ELSE IF v \in MCPMethod THEN v
    ELSE Invalid

(* A faulty validator that lets an unknown method name through unconverted. *)
validate_method_lenient(v) ==
    IF v = None THEN Invalid
    ELSE IF startswith(v, "notifications/") THEN NOTIFICATION
    ELSE v

(* JSONRPCRequest.validate_method: the member of MCPMethod the wire value  *)
(* converts to, or Invalid when the validator raises.                      *)
validate_method(v) ==
    IF v = None THEN Invalid
    ELSE IF startswith(v, "notifications/") THEN NOTIFICATION
    ELSE IF v \in MCPMethod THEN v
    ELSE Invalid

(* McpApiGatewayProxyEventHeaders: content-type has min_length 1; a missing *)
(* content-type header (None here) takes the field default unvalidated.     *)
HeadersValid(event) == event.content_type # ""

(* A faulty body model that accepts any jsonrpc value. *)
BodyValid_any_version(body) ==
    /\ body.raw = "json"
    /\ validate_method(body.method) # Invalid

(* JSONRPCRequest.model_validate_json on the body string *)
BodyValid(body) ==
    /\ body.raw = "json"
    /\ body.jsonrpc = "2.0"
    /\ validate_method(body.method) # Invalid

(* parse(event, MCPPostAPIGatewayProxyEvent) does not raise *)
ParsePostOk(event) == HeadersValid(event) /\ BodyValid(event.body)

(* parse(event, MCPDeleteAPIGatewayProxyEvent) does not raise *)
ParseDeleteOk(event) == HeadersValid(event)

----------------------------------------------------------------------------
(* mcp_lambda_handler.py: responses *)

NoErrorData == << >>
NoResult == [kind |-> "none", tools |-> << >>, content |-> << >>]

SessionHeader(sid) == IF Truthy(sid) THEN {<<"MCP-Session-Id", sid>>} ELSE {}

StdHeaders == {<<"Content-Type", CONTENT_TYPE_JSON>>, <<"MCP-Version", MCP_VERSION>>}

(* A faulty status map without the entry for invalid params. *)
error_code_to_http_status_short(code) ==
    CASE code = ERROR_PARSE -> HTTP_BAD_REQUEST
      [] code = ERROR_INVALID_REQUEST -> HTTP_BAD_REQUEST
      [] code = ERROR_METHOD_NOT_FOUND -> HTTP_NOT_FOUND
      [] code = ERROR_INTERNAL -> HTTP_INTERNAL_SERVER_ERROR
      [] OTHER -> HTTP_INTERNAL_SERVER_ERROR

error_code_to_http_status(code) ==
    CASE code = ERROR_PARSE -> HTTP_BAD_REQUEST
      [] code = ERROR_INVALID_REQUEST -> HTTP_BAD_REQUEST
      [] code = ERROR_METHOD_NOT_FOUND -> HTTP_NOT_FOUND
      [] code = ERROR_INVALID_PARAMS -> HTTP_BAD_REQUEST
      [] code = ERROR_INTERNAL -> HTTP_INTERNAL_SERVER_ERROR
      [] OTHER -> HTTP_INTERNAL_SERVER_ERROR

(* status_code is 0 where the caller passes none (status_code or ...). *)
create_error_response(code, message, rid, sid, status_code, data) ==
    [statusCode |-> IF status_code # 0 THEN status_code ELSE error_code_to_http_status(code),
     headers |-> StdHeaders \cup SessionHeader(sid),
     body |-> [kind |-> "error", id |-> rid, code |-> code, message |-> message,
               data |-> data, result |-> NoResult]]

create_success_response(result, rid, sid) ==
    [statusCode |-> HTTP_OK,
     headers |-> StdHeaders \cup SessionHeader(sid),
     body |-> [kind |-> "result", id |-> rid, code |-> 0, message |-> "",
               data |-> NoErrorData, result |-> result]]

(* A bare {'statusCode': n}, as DELETE returns. *)
BareResponse(status) ==
    [statusCode |-> status, headers |-> {},
     body |-> [kind |-> "absent", id |-> None, code |-> 0, message |-> "",
               data |-> NoErrorData, result |-> NoResult]]

(* Placeholder where a helper returns no response (None). *)
NoResponse == BareResponse(0)

(* The 202 answer to a notification: empty body, the two standard headers. *)
NotificationResponse ==
    [statusCode |-> HTTP_ACCEPTED, headers |-> StdHeaders,
     body |-> [kind |-> "empty", id |-> None, code |-> 0, message |-> "",
               data |-> NoErrorData, result |-> NoResult]]

----------------------------------------------------------------------------
(* Python built-ins the argument converter calls *)

UpperCase == "ABCDEFGHIJKLMNOPQRSTUVWXYZ"
LowerCase == "abcdefghijklmnopqrstuvwxyz"
Digits == "0123456789"

(* The 1-based position of the one-character string c in alphabet, or 0. *)
IndexOf(c, alphabet) ==
    LET hits == {k \in 1..Len(alphabet) : SubSeq(alphabet, k, k) = c}
    IN IF hits = {} THEN 0 ELSE CHOOSE k \in hits : TRUE

RECURSIVE lower(_)
lower(x) ==
    IF Len(x) = 0 THEN ""
    ELSE LET c == SubSeq(x, 1, 1)
             k == IndexOf(c, UpperCase)
         IN (IF k = 0 THEN c ELSE SubSeq(LowerCase, k, k)) \o lower(SubSeq(x, 2, Len(x)))

RECURSIVE IsDigits(_)
IsDigits(x) ==
    \/ Len(x) = 0
    \/ IndexOf(SubSeq(x, 1, 1), Digits) # 0 /\ IsDigits(SubSeq(x, 2, Len(x)))

RECURSIVE DigitsValue(_)
DigitsValue(x) ==
    IF Len(x) = 0 THEN 0
    ELSE 10 * DigitsValue(SubSeq(x, 1, Len(x) - 1))
         + (IndexOf(SubSeq(x, Len(x), Len(x)), Digits) - 1)

(* int('...') on text without blanks or underscores: an optional sign and  *)
(* at least one decimal digit, else ValueError.                            *)
Unsigned(x) ==
    IF Len(x) > 0 /\ SubSeq(x, 1, 1) \in {"-", "+"} THEN SubSeq(x, 2, Len(x)) ELSE x

IsIntLiteral(x) == Len(Unsigned(x)) > 0 /\ IsDigits(Unsigned(x))

IntLiteral(x) ==
    IF Len(x) > 0 /\ SubSeq(x, 1, 1) = "-"
    THEN 0 - DigitsValue(Unsigned(x))
    ELSE DigitsValue(Unsigned(x))

(* float('...') on text of the form digits or digits.digit, with an        *)
(* optional sign; any other text here is a ValueError.                     *)
IsFloatLiteral(x) ==
    LET u == Unsigned(x)
        n == Len(u)
    IN \/ IsIntLiteral(x)
       \/ /\ n >= 3
          /\ SubSeq(u, n - 1, n - 1) = "."
          /\ IsDigits(SubSeq(u, 1, n - 2))
          /\ IsDigits(SubSeq(u, n, n))

(* The value of a float literal, in tenths *)
FloatLiteral(x) ==
    LET u == Unsigned(x)
        n == Len(u)
        tenths == IF IsIntLiteral(x) THEN 10 * DigitsValue(u)
                  ELSE 10 * DigitsValue(SubSeq(u, 1, n - 2)) + DigitsValue(SubSeq(u, n, n))
    IN IF SubSeq(x, 1, 1) = "-" THEN 0 - tenths ELSE tenths

(* int(f) of a float in tenths: truncation toward zero *)
Truncate(tenths) == IF tenths >= 0 THEN tenths \div 10 ELSE 0 - ((0 - tenths) \div 10)

(* str(v) *)
str(v) ==
    CASE v.t = "str" -> v.s
      [] v.t = "int" -> ToString(v.i)
      [] v.t \in {"list", "dict"} -> v.s
      [] v.t = "TestEnum" -> "TestEnum." \o v.s
      [] v.t = "float" /\ v.s = "inf" -> "inf"
      [] v.t = "float" ->
            (IF v.i < 0 THEN "-" ELSE "")
            \o ToString((IF v.i < 0 THEN 0 - v.i ELSE v.i) \div 10) \o "."
            \o ToString((IF v.i < 0 THEN 0 - v.i ELSE v.i) % 10)
      [] v.t = "bool" -> IF v.i = 1 THEN "True" ELSE "False"
      [] OTHER -> "None"

(* isinstance(v, T) for a primitive T; bool is a subclass of int. *)
isinstance(v, T) ==
    CASE T = "int" -> v.t \in {"int", "bool"}
      [] OTHER -> v.t = T

----------------------------------------------------------------------------
(* mcp_lambda_handler.py: argument validation                              *)
(* A conversion yields [err, val, msg, expected]: err is TRUE when the     *)
(* helper returns an (error_msg, expected_type) tuple.                     *)

(* sep.join(names) *)
RECURSIVE Join(_, _)
Join(names, sep) ==
    IF Len(names) = 0 THEN ""
    ELSE IF Len(names) = 1 THEN names[1]
    ELSE names[1] \o sep \o Join(Tail(names), sep)

Converted(v) == [err |-> FALSE, raised |-> FALSE, val |-> v, msg |-> "", expected |-> ""]
ConversionError(msg, expected) ==
    [err |-> TRUE, raised |-> FALSE, val |-> PyNone, msg |-> msg, expected |-> expected]
(* The helper raises an exception that it does not catch itself. *)
ConversionRaised(msg) ==
    [err |-> TRUE, raised |-> TRUE, val |-> PyNone, msg |-> msg, expected |-> ""]

(* repr(v) of a JSON value *)
repr(v) == IF v.t = "str" THEN "'" \o v.s \o "'" ELSE str(v)

(* bool(v) of a value that is no text *)
truth(v) ==
    CASE v.t \in {"int", "bool"} -> v.i # 0
      [] v.t = "float" -> v.i # 0 \/ v.s = "inf"
      [] v.t = "list" -> v.s # "[]"
      [] v.t = "dict" -> v.s # "{}"
      [] v.t = "NoneType" -> FALSE
      [] OTHER -> TRUE

(* primitive_type(arg_value) inside try / except (ValueError, TypeError):  *)
(* the constructor's result, or the (str(e), primitive_type.__name__)      *)
(* tuple; int(float('inf')) raises OverflowError, which is not caught.     *)
primitive_constructor(arg_value, primitive_type) ==
    CASE primitive_type = "int" ->
            CASE arg_value.t \in {"int", "bool"} -> Converted(PyInt(arg_value.i))
              [] arg_value.t = "float" ->
                    IF arg_value.s = "inf"
                    THEN ConversionRaised("cannot convert float infinity to integer")
                    ELSE Converted(PyInt(Truncate(arg_value.i)))
              [] arg_value.t = "str" ->
                    IF IsIntLiteral(arg_value.s)
                    THEN Converted(PyInt(IntLiteral(arg_value.s)))
                    ELSE ConversionError("invalid literal for int() with base 10: '"
                                         \o arg_value.s \o "'", "int")
              [] OTHER ->
                    ConversionError("int() argument must be a string, a bytes-like object "
                                    \o "or a real number, not '" \o arg_value.t \o "'", "int")
      [] primitive_type = "float" ->
            CASE arg_value.t \in {"int", "bool"} -> Converted(PyFloat(10 * arg_value.i))
              [] arg_value.t = "float" -> Converted(arg_value)
              [] arg_value.t = "str" ->
                    IF IsFloatLiteral(arg_value.s)
                    THEN Converted(PyFloat(FloatLiteral(arg_value.s)))
                    ELSE ConversionError("could not convert string to float: '"
                                         \o arg_value.s \o "'", "float")
              [] OTHER ->
                    ConversionError("float() argument must be a string or a real number, "
                                    \o "not '" \o arg_value.t \o "'", "float")
      [] primitive_type = "bool" -> Converted(PyBool(truth(arg_value)))
      [] OTHER -> Converted(PyStr(str(arg_value)))

(* A faulty converter that falls back on bool(text) for an unknown word. *)
convert_primitive_value_truthy(arg_value, primitive_type) ==
    IF primitive_type = "bool" /\ arg_value.t = "str"
    THEN LET lower_val == lower(arg_value.s)
         IN IF lower_val \in {"false", "no", "0", "off"} THEN Converted(PyBool(FALSE))
            ELSE Converted(PyBool(Len(arg_value.s) > 0))
    ELSE primitive_constructor(arg_value, primitive_type)

(* A faulty converter that turns a boolean word into the integer 1 or 0   *)
(* instead of the boolean, so that a second pass converts it again.       *)
convert_primitive_value_digit(arg_value, primitive_type) ==
    IF primitive_type = "bool" /\ arg_value.t = "str"
    THEN LET lower_val == lower(arg_value.s)
         IN IF lower_val \in {"true", "yes", "1", "on"} THEN Converted(PyInt(1))
            ELSE IF lower_val \in {"false", "no", "0", "off"} THEN Converted(PyInt(0))
            ELSE ConversionError("Cannot convert '" \o arg_value.s \o "' to boolean", "boolean")
    ELSE primitive_constructor(arg_value, primitive_type)

convert_primitive_value(arg_value, primitive_type) ==
    IF primitive_type = "bool" /\ arg_value.t = "str"
    THEN LET lower_val == lower(arg_value.s)
         IN IF lower_val \in {"true", "yes", "1", "on"} THEN Converted(PyBool(TRUE))
            ELSE IF lower_val \in {"false", "no", "0", "off"} THEN Converted(PyBool(FALSE))
            ELSE ConversionError("Cannot convert '" \o arg_value.s \o "' to boolean", "boolean")
    ELSE primitive_constructor(arg_value, primitive_type)

(* The type hints.  A hint is named by its text: the primitives, the enum  *)
(* TestEnum of the validation tests and the generic aliases built on them. *)

(* class TestEnum(Enum): the members in definition order *)
TestEnum ==
    <<[name |-> "VALUE1", value |-> PyStr("value1")],
      [name |-> "VALUE2", value |-> PyStr("value2")],
      [name |-> "NUMBER_VALUE", value |-> PyInt(42)]>>

(* isinstance(arg_type, type) and issubclass(arg_type, Enum) *)
is_enum(type_hint) == type_hint = "TestEnum"

get_origin(type_hint) ==
    CASE type_hint \in {"Optional[int]", "Optional[TestEnum]"} -> "Union"
      [] type_hint = "List[str]" -> "list"
      [] type_hint = "Dict[str, int]" -> "dict"
      [] OTHER -> None

get_args(type_hint) ==
    CASE type_hint = "Optional[int]" -> <<"int", "NoneType">>
      [] type_hint = "Optional[TestEnum]" -> <<"TestEnum", "NoneType">>
      [] type_hint = "List[str]" -> <<"str">>
      [] type_hint = "Dict[str, int]" -> <<"str", "int">>
      [] OTHER -> << >>

(* ", ".join(str(e.value) for e in enum_type) *)
enum_values(enum_type) == Join([j \in 1..Len(TestEnum) |-> str(TestEnum[j].value)], ", ")

(* _convert_enum_value: the member with that value (42.0 equals 42), else   *)
(* the member whose lower-cased name is the lower-cased text, else the      *)
(* error tuple.                                                             *)
convert_enum_value(arg_value, enum_type) ==
    LET by_value == {j \in 1..Len(TestEnum) :
                        \/ TestEnum[j].value = arg_value
                        \/ /\ TestEnum[j].value.t = "int"
                           /\ arg_value = PyFloat(10 * TestEnum[j].value.i)}
        by_name == {j \in 1..Len(TestEnum) :
                        arg_value.t = "str" /\ lower(TestEnum[j].name) = lower(arg_value.s)}
    IN IF by_value # {} THEN Converted(PyEnum(TestEnum[CHOOSE j \in by_value : TRUE].name))
       ELSE IF by_name # {} THEN Converted(PyEnum(TestEnum[CHOOSE j \in by_name : TRUE].name))
       ELSE ConversionError("Invalid enum value: " \o str(arg_value)
                                \o ". Expected one of: ['value1', 'value2', 42]",
                            "enum [" \o enum_values(enum_type) \o "]")

(* _convert_union_value: Optional[X] of a primitive or an enum converts to *)
(* X; any other union passes the value through.                            *)
convert_union_value(arg_value, union_type) ==
    LET type_args == get_args(union_type)
        actual_type == type_args[1]
    IN IF Len(type_args) = 2 /\ type_args[2] = "NoneType"
       THEN IF actual_type \in {"str", "int", "float", "bool"}
            THEN convert_primitive_value(arg_value, actual_type)
            ELSE IF is_enum(actual_type) THEN convert_enum_value(arg_value, actual_type)
            ELSE Converted(arg_value)
       ELSE Converted(arg_value)

(* _convert_list_value: a value that is no list becomes a one-item list. *)
convert_list_value(arg_value, list_type) ==
    IF arg_value.t # "list" THEN Converted(PyList("[" \o repr(arg_value) \o "]"))
    ELSE Converted(arg_value)

RECURSIVE get_friendly_type_name(_)
get_friendly_type_name(type_hint) ==
    LET args == get_args(type_hint)
    IN CASE type_hint \in {"str", "int", "float", "bool"} -> type_hint
         [] is_enum(type_hint) -> "enum [" \o enum_values(type_hint) \o "]"
         [] get_origin(type_hint) = "Union" ->
               "optional " \o get_friendly_type_name(args[1])
         [] get_origin(type_hint) = "list" ->
               "list of " \o get_friendly_type_name(args[1])
         [] get_origin(type_hint) = "dict" ->
               "dictionary with " \o get_friendly_type_name(args[1]) \o " keys and "
                   \o get_friendly_type_name(args[2]) \o " values"
         [] OTHER -> type_hint

convert_arg_value(arg_name, arg_value, arg_type) ==
    CASE is_enum(arg_type) -> convert_enum_value(arg_value, arg_type)
      [] arg_type \in {"str", "int", "float", "bool"} /\ ~isinstance(arg_value, arg_type) ->
            convert_primitive_value(arg_value, arg_type)
      [] get_origin(arg_type) = "Union" -> convert_union_value(arg_value, arg_type)
      [] get_origin(arg_type) = "list" -> convert_list_value(arg_value, arg_type)
      [] get_origin(arg_type) = "dict" ->
            IF arg_value.t # "dict"
            THEN ConversionError("Expected dict, got " \o arg_value.t, "dictionary")
            ELSE Converted(arg_value)
      [] OTHER -> Converted(arg_value)

(* The keys of an ordered dict given as a sequence of [k, v] items. *)
Keys(items) == {items[j].k : j \in 1..Len(items)}

(* A faulty presence check that reports only the first missing parameter. *)
RECURSIVE missing_required_first(_, _)
missing_required_first(signature, provided_params) ==
    IF Len(signature) = 0 THEN << >>
    ELSE IF ~signature[1].has_default /\ signature[1].name \notin provided_params
    THEN <<signature[1].name>>
    ELSE missing_required_first(Tail(signature), provided_params)

(* [param for param in signature.parameters if no default and not provided] *)
RECURSIVE missing_required(_, _)
missing_required(signature, provided_params) ==
    IF Len(signature) = 0 THEN << >>
    ELSE (IF ~signature[1].has_default /\ signature[1].name \notin provided_params
          THEN <<signature[1].name>> ELSE << >>)
         \o missing_required(Tail(signature), provided_params)

(* A faulty presence check that leaves the unexpected keys in tool_args. *)
pop_unexpected_kept(items, expected_params) == items

(* tool_args after the unexpected keys are popped *)
RECURSIVE pop_unexpected(_, _)
pop_unexpected(items, expected_params) ==
    IF Len(items) = 0 THEN << >>
    ELSE (IF items[1].k \in expected_params THEN <<items[1]>> ELSE << >>)
         \o pop_unexpected(Tail(items), expected_params)

(* _check_parameter_presence: the error response (err) or the kept args *)
check_parameter_presence(tool_args, signature, rid, sid) ==
    LET expected_params == {signature[j].name : j \in 1..Len(signature)}
        Check(missing) ==
            IF Len(missing) > 0
            THEN [err |-> TRUE, args |-> << >>,
                  resp |-> create_error_response(ERROR_INVALID_PARAMS,
                               "Missing required parameters: " \o Join(missing, ", "),
                               rid, sid, 0, NoErrorData)]
            ELSE [err |-> FALSE, args |-> pop_unexpected(tool_args, expected_params),
                  resp |-> NoResponse]
    IN Check(missing_required(signature, Keys(tool_args)))

(* hints[arg_name], or None when the parameter has no type hint *)
HintOf(signature, name) ==
    LET hits == {j \in 1..Len(signature) : signature[j].name = name}
    IN IF hits = {} THEN None ELSE signature[CHOOSE j \in hits : TRUE].type

(* _convert_and_validate_args: items are converted in dict order, the first *)
(* failure returns.  done holds the converted items so far.                 *)
RECURSIVE convert_and_validate_args(_, _, _, _, _)
convert_and_validate_args(items, done, signature, rid, sid) ==
    IF Len(items) = 0 THEN [err |-> FALSE, args |-> done, resp |-> NoResponse]
    ELSE LET arg_name == items[1].k
             arg_value == items[1].v
             arg_type == HintOf(signature, arg_name)
         IN IF arg_type = None \/ arg_value.t = "NoneType"
            THEN convert_and_validate_args(Tail(items), Append(done, items[1]),
                                           signature, rid, sid)
            ELSE LET Store(c) ==
                         IF c.err
                         THEN [err |-> TRUE, args |-> << >>,
                               resp |-> create_error_response(ERROR_INVALID_PARAMS,
                                           "Invalid value for parameter '" \o arg_name
                                               \o "': " \o c.msg,
                                           rid, sid, 0,
                                           <<IF c.raised
                                             THEN get_friendly_type_name(arg_type)
                                             ELSE c.expected,
                                             arg_value.t>>)]
                         ELSE convert_and_validate_args(Tail(items),
                                  Append(done, [k |-> arg_name, v |-> c.val]),
                                  signature, rid, sid)
                 IN Store(convert_arg_value(arg_name, arg_value, arg_type))

(* _validate_tool_args; tool_args is a dict here *)
validate_tool_args(tool_args, signature, rid, sid) ==
    LET Convert(presence) ==
            IF presence.err THEN presence
            ELSE convert_and_validate_args(presence.args, << >>, signature, rid, sid)
    IN Convert(check_parameter_presence(tool_args, signature, rid, sid))

----------------------------------------------------------------------------
(* service/handlers/mcp.py: the tool registry after import *)

(* inspect.signature(math): a: int, b: int, no defaults *)
math_signature ==
    <<[name |-> "a", type |-> "int", has_default |-> FALSE],
      [name |-> "b", type |-> "int", has_default |-> FALSE]>>

(* A decorated function: its __name__, its docstring, the name/description *)
(* pairs of the docstring's Args: section, and its signature, where type   *)
(* is None for a parameter without annotation.                             *)
Func(name, doc, arg_descriptions, signature) ==
    [name |-> name, doc |-> doc, arg_descriptions |-> arg_descriptions,
     signature |-> signature]

math_func == Func("math", "Add two numbers together", << >>, math_signature)

(* s.split(sep) for a one-character sep *)
RECURSIVE split(_, _)
split(x, sep) ==
    LET hits == {k \in 1..Len(x) : SubSeq(x, k, k) = sep}
    IN IF hits = {} THEN <<x>>
       ELSE LET k == CHOOSE h \in hits : \A g \in hits : h <= g
            IN <<SubSeq(x, 1, k - 1)>> \o split(SubSeq(x, k + 1, Len(x)), sep)

(* word.capitalize() *)
capitalize(word) ==
    IF Len(word) = 0 THEN ""
    ELSE LET c == SubSeq(word, 1, 1)
             k == IndexOf(c, LowerCase)
         IN (IF k = 0 THEN c ELSE SubSeq(UpperCase, k, k)) \o lower(SubSeq(word, 2, Len(word)))

RECURSIVE capitalize_all(_)
capitalize_all(words) ==
    IF Len(words) = 0 THEN ""
    ELSE capitalize(words[1]) \o capitalize_all(Tail(words))

(* func_name in camelCase *)
tool_name_of(func_name) ==
    LET words == split(func_name, "_")
    IN words[1] \o capitalize_all(Tail(words))

(* doc.split('\n\n')[0] *)
first_paragraph(doc) ==
    LET hits == {k \in 1..(Len(doc) - 1) : SubSeq(doc, k, k + 1) = "\n\n"}
    IN IF hits = {} THEN doc
       ELSE SubSeq(doc, 1, (CHOOSE h \in hits : \A g \in hits : h <= g) - 1)

(* get_type_schema for the primitive hints; any other hint without an     *)
(* origin type gets the default.                                          *)
get_type_schema(type_hint) ==
    CASE type_hint = "int" -> "integer"
      [] type_hint = "float" -> "number"
      [] type_hint = "bool" -> "boolean"
      [] type_hint = "str" -> "string"
      [] OTHER -> "string"

(* get_type_hints(func) without 'return': the annotated parameters in order *)
RECURSIVE hints_of(_)
hints_of(signature) ==
    IF Len(signature) = 0 THEN << >>
    ELSE (IF signature[1].type # None THEN <<signature[1]>> ELSE << >>)
         \o hints_of(Tail(signature))

(* The description the Args: section gives a parameter, or None *)
arg_description(arg_descriptions, name) ==
    LET hits == {j \in 1..Len(arg_descriptions) : arg_descriptions[j].k = name}
    IN IF hits = {} THEN None ELSE arg_descriptions[CHOOSE j \in hits : TRUE].v

(* The decorator of MCPLambdaHandler.tool: the tool schema it registers.  *)
(* properties and required are built by one loop over the hints.          *)
tool(func) ==
    LET hints == hints_of(func.signature)
    IN [name |-> tool_name_of(func.name),
        description |-> first_paragraph(func.doc),
        inputSchema |->
            [type |-> "object",
             properties |-> [j \in 1..Len(hints) |->
                                [name |-> hints[j].name,
                                 type |-> get_type_schema(hints[j].type),
                                 description |-> arg_description(func.arg_descriptions,
                                                                 hints[j].name)]],
             required |-> [j \in 1..Len(hints) |-> hints[j].name]]]

(* The functions decorated at import, in order *)
registered == <<math_func>>

(* self.tools, in registration order *)
tools == [j \in 1..Len(registered) |-> tool(registered[j])]

ToolNames == {tools[j].name : j \in 1..Len(tools)}

(* self.tool_implementations[name] *)
ToolNamed(name) == registered[CHOOSE j \in 1..Len(tools) : tools[j].name = name]

(* The value the converted arguments hold for a parameter. *)
ArgOf(args, name) == args[CHOOSE j \in 1..Len(args) : args[j].k = name].v

(* MCPLambdaHandler.set_session *)
set_session(sid, data, tbl, faults) ==
    IF ~Truthy(sid)
    THEN [ret |-> FALSE, store |-> tbl, calls |-> << >>]
    ELSE update_session(tbl, sid, data, faults)

(* math(a, b): add_two_numbers(a, b), then set_session({'result': result}). *)
(* `raises` is the exception the logic layer throws (None: it runs);       *)
(* None + int is a TypeError.                                              *)
math(args, sid, tbl, faults, raises) ==
    LET a == ArgOf(args, "a")
        b == ArgOf(args, "b")
    IN IF raises # None \/ a.t = "NoneType" \/ b.t = "NoneType"
       THEN [raised |-> TRUE, ret |-> PyNone, store |-> tbl, calls |-> << >>,
             exc |-> IF raises # None THEN raises
                     ELSE "TypeError: unsupported operand type(s) for +"]
       ELSE LET result == a.i + b.i
                Saved(saved) ==
                    [raised |-> FALSE, ret |-> PyInt(result), store |-> saved.store,
                     calls |-> saved.calls, exc |-> None]
            IN Saved(set_session(sid, ResultData(result), tbl, faults))

(* self.tool_implementations[tool_name], called with the converted args *)
tool_implementations(tool_name, args, sid, tbl, faults, raises) ==
    CASE tool_name = "math" -> math(args, sid, tbl, faults, raises)

----------------------------------------------------------------------------
(* mcp_lambda_handler.py: the method handlers.  Each returns the response, *)
(* the table and handler session_id afterwards, the table calls and tool   *)
(* invocations made, and whether an exception escaped it.                  *)

Outcome(r, tbl, sid, calls, inv) ==
    [raised |-> FALSE, resp |-> r, store |-> tbl, session_id |-> sid,
     calls |-> calls, invoked |-> inv]

Escaped(tbl, sid, calls, inv) ==
    [raised |-> TRUE, resp |-> NoResponse, store |-> tbl, session_id |-> sid,
     calls |-> calls, invoked |-> inv]

InitializeResult == [kind |-> "initialize", tools |-> << >>, content |-> << >>]
ToolsListResult == [kind |-> "tools", tools |-> tools, content |-> << >>]
EmptyResult == [kind |-> "empty", tools |-> << >>, content |-> << >>]
ContentResult(text) ==
    [kind |-> "content", tools |-> << >>, content |-> <<[type |-> "text", text |-> text]>>]

handle_initialize(event, rid, sid, tbl, t, n) ==
    LET Respond(created) ==
            IF created.raised
            THEN Escaped(tbl, sid, created.calls, << >>)
            ELSE Outcome(create_success_response(InitializeResult, rid, created.ret),
                         created.store, created.ret, created.calls, << >>)
    IN Respond(create_session(tbl, n + 1, t, event.faults))

handle_tools_list(event, rid, sid, tbl) ==
    Outcome(create_success_response(ToolsListResult, rid, sid), tbl, sid, << >>, << >>)

(* A faulty ping that looks the session up first. *)
handle_ping_checked(event, rid, sid, tbl) ==
    LET Respond(session) ==
            IF session.found
            THEN Outcome(create_success_response(EmptyResult, rid, sid), session.store, sid,
                         session.calls, << >>)
            ELSE Outcome(create_error_response(ERROR_SERVER, "Invalid or expired session",
                             rid, None, HTTP_NOT_FOUND, NoErrorData),
                         session.store, sid, session.calls, << >>)
    IN Respond(get_session(tbl, sid, 0, event.faults))

handle_ping(event, rid, sid, tbl) ==
    Outcome(create_success_response(EmptyResult, rid, sid), tbl, sid, << >>, << >>)

(* _validate_session *)
validate_session(sid, tbl, t, faults) == get_session(tbl, sid, t, faults)

(* A faulty except clause that puts the exception into the message. *)
ToolErrorResponse_echo(e, rid, sid) ==
    create_error_response(ERROR_INTERNAL, "Error executing tool: " \o e, rid, sid, 0,
                          NoErrorData)

(* The error response of the except clause of _handle_tools_call *)
ToolErrorResponse(e, rid, sid) ==
    create_error_response(ERROR_INTERNAL, "Error executing tool", rid, sid, 0, NoErrorData)

(* A faulty try block that calls the tool before it looks at the outcome  *)
(* of the validation.                                                     *)
call_tool_unchecked(tool_name, arguments, event, rid, sid, tbl, calls) ==
    LET Respond(ran) ==
            IF ran.raised
            THEN Outcome(ToolErrorResponse(ran.exc, rid, sid), ran.store, sid,
                         calls \o ran.calls, <<tool_name>>)
            ELSE Outcome(create_success_response(ContentResult(str(ran.ret)), rid, sid),
                         ran.store, sid, calls \o ran.calls, <<tool_name>>)
        Run(checked) ==
            IF checked.err THEN Outcome(checked.resp, tbl, sid, calls, <<tool_name>>)
            ELSE Respond(tool_implementations(tool_name, checked.args, sid, tbl,
                                              event.faults, event.raises))
    IN IF arguments.kind = "other"
       THEN (* tool_args.keys() raises AttributeError *)
            Outcome(ToolErrorResponse("AttributeError: object has no attribute 'keys'",
                                      rid, sid), tbl, sid, calls, << >>)
       ELSE Run(validate_tool_args(arguments.items, ToolNamed(tool_name).signature,
                                   rid, sid))

(* The try block of _handle_tools_call, the session being valid and the    *)
(* tool registered.                                                        *)
call_tool(tool_name, arguments, event, rid, sid, tbl, calls) ==
    LET Respond(ran) ==
            IF ran.raised
            THEN Outcome(ToolErrorResponse(ran.exc, rid, sid), ran.store, sid,
                         calls \o ran.calls, <<tool_name>>)
            ELSE Outcome(create_success_response(ContentResult(str(ran.ret)), rid, sid),
                         ran.store, sid, calls \o ran.calls, <<tool_name>>)
        Run(checked) ==
            IF checked.err THEN Outcome(checked.resp, tbl, sid, calls, << >>)
            ELSE Respond(tool_implementations(tool_name, checked.args, sid, tbl,
                                              event.faults, event.raises))
    IN IF arguments.kind = "other"
       THEN (* tool_args.keys() raises AttributeError *)
            Outcome(ToolErrorResponse("AttributeError: object has no attribute 'keys'",
                                      rid, sid), tbl, sid, calls, << >>)
       ELSE Run(validate_tool_args(arguments.items, ToolNamed(tool_name).signature,
                                   rid, sid))

(* A faulty tools/call that looks the session up before it looks at params. *)
handle_tools_call_session_first(event, rid, sid, tbl, t) ==
    LET params == event.body.params
        Call(session) ==
            IF ~session.found
            THEN Outcome(create_error_response(ERROR_SERVER, "Invalid or expired session",
                             rid, None, HTTP_NOT_FOUND, NoErrorData),
                         session.store, sid, session.calls, << >>)
            ELSE IF params.kind = "list"
            THEN (* list.get raises AttributeError *)
                 Escaped(session.store, sid, session.calls, << >>)
            ELSE IF params.name \notin ToolNames
            THEN Outcome(create_error_response(ERROR_METHOD_NOT_FOUND,
                             "Tool '" \o (IF params.name = None THEN "None" ELSE params.name)
                                 \o "' not found",
                             rid, sid, 0, NoErrorData),
                         session.store, sid, session.calls, << >>)
            ELSE call_tool(params.name, params.arguments, event, rid, sid,
                           session.store, session.calls)
        Check(session) ==
            IF session.found /\ (params.kind = "none" \/ params.size = 0)
            THEN Outcome(create_error_response(ERROR_INVALID_PARAMS,
                             "Missing parameters for tools/call", rid, sid, 0, NoErrorData),
                         session.store, sid, session.calls, << >>)
            ELSE Call(session)
    IN Check(validate_session(sid, tbl, t, event.faults))

handle_tools_call(event, rid, sid, tbl, t) ==
    LET params == event.body.params
        Call(session) ==
            IF ~session.found
            THEN Outcome(create_error_response(ERROR_SERVER, "Invalid or expired session",
                             rid, None, HTTP_NOT_FOUND, NoErrorData),
                         session.store, sid, session.calls, << >>)
            ELSE IF params.kind = "list"
            THEN (* list.get raises AttributeError *)
                 Escaped(session.store, sid, session.calls, << >>)
            ELSE IF params.name \notin ToolNames
            THEN Outcome(create_error_response(ERROR_METHOD_NOT_FOUND,
                             "Tool '" \o (IF params.name = None THEN "None" ELSE params.name)
                                 \o "' not found",
                             rid, sid, 0, NoErrorData),
                         session.store, sid, session.calls, << >>)
            ELSE call_tool(params.name, params.arguments, event, rid, sid,
                           session.store, session.calls)
    IN IF params.kind = "none" \/ params.size = 0
       THEN Outcome(create_error_response(ERROR_INVALID_PARAMS,
                        "Missing parameters for tools/call", rid, sid, 0, NoErrorData),
                    tbl, sid, << >>, << >>)
       ELSE Call(validate_session(sid, tbl, t, event.faults))

(* A faulty DELETE that answers 404 when the table holds no such session. *)
handle_http_delete_strict(event, sid, tbl) ==
    LET Respond(d) ==
            Outcome(BareResponse(HTTP_NO_CONTENT), d.store, sid, d.calls, << >>)
    IN IF Truthy(sid) /\ HasItem(tbl, sid)
       THEN Respond(delete_session(tbl, sid, event.faults))
       ELSE Outcome(BareResponse(HTTP_NOT_FOUND), tbl, sid, << >>, << >>)

handle_http_delete(event, sid, tbl) ==
    LET Respond(d) ==
            Outcome(BareResponse(HTTP_NO_CONTENT), d.store, sid, d.calls, << >>)
    IN IF Truthy(sid)
       THEN Respond(delete_session(tbl, sid, event.faults))
       ELSE Outcome(BareResponse(HTTP_NOT_FOUND), tbl, sid, << >>, << >>)

(* method_handlers *)
method_handlers == {INITIALIZE, TOOLS_LIST, TOOLS_CALL, PING}

dispatch(method, event, rid, sid, tbl, t, n) ==
    CASE method = INITIALIZE -> handle_initialize(event, rid, sid, tbl, t, n)
      [] method = TOOLS_LIST -> handle_tools_list(event, rid, sid, tbl)
      [] method = TOOLS_CALL -> handle_tools_call(event, rid, sid, tbl, t)
      [] method = PING -> handle_ping(event, rid, sid, tbl)

(* A faulty POST handler that requires a session of tools/call only. *)
handle_http_post_lax(event, rid, sid, tbl, t, n) ==
    LET method == validate_method(event.body.method)
    IN IF event.content_type # CONTENT_TYPE_JSON
       THEN Outcome(create_error_response(ERROR_PARSE, "Unsupported Media Type",
                        None, None, 0, NoErrorData),
                    tbl, sid, << >>, << >>)
       ELSE IF method = NOTIFICATION
       THEN Outcome(NotificationResponse, tbl, sid, << >>, << >>)
       ELSE IF ~Truthy(sid) /\ method = TOOLS_CALL
       THEN Outcome(create_error_response(ERROR_INVALID_REQUEST, "Session required",
                        rid, None, HTTP_BAD_REQUEST, NoErrorData),
                    tbl, sid, << >>, << >>)
       ELSE IF method \in method_handlers
       THEN dispatch(method, event, rid, sid, tbl, t, n)
       ELSE Outcome(create_error_response(ERROR_METHOD_NOT_FOUND,
                        "Method not found: " \o method, rid, sid, 0, NoErrorData),
                    tbl, sid, << >>, << >>)

handle_http_post(event, rid, sid, tbl, t, n) ==
    LET method == validate_method(event.body.method)
    IN IF event.content_type # CONTENT_TYPE_JSON
       THEN Outcome(create_error_response(ERROR_PARSE, "Unsupported Media Type",
                        None, None, 0, NoErrorData),
                    tbl, sid, << >>, << >>)
       ELSE IF method = NOTIFICATION
       THEN Outcome(NotificationResponse, tbl, sid, << >>, << >>)
       ELSE IF ~Truthy(sid) /\ method # INITIALIZE
       THEN Outcome(create_error_response(ERROR_INVALID_REQUEST, "Session required",
                        rid, None, HTTP_BAD_REQUEST, NoErrorData),
                    tbl, sid, << >>, << >>)
       ELSE IF method \in method_handlers
       THEN dispatch(method, event, rid, sid, tbl, t, n)
       ELSE Outcome(create_error_response(ERROR_METHOD_NOT_FOUND,
                        "Method not found: " \o method, rid, sid, 0, NoErrorData),
                    tbl, sid, << >>, << >>)

(* handle_request: self is the handler's (session_id, request_id) left by  *)
(* the previous invocation; the result adds the request_id it ends with.   *)
Handled(o, rid) ==
    [resp |-> o.resp, store |-> o.store, session_id |-> o.session_id, request_id |-> rid,
     calls |-> o.calls, invoked |-> o.invoked]

InternalErrorResponse(rid, sid) ==
    create_error_response(ERROR_INTERNAL, "Internal server error", rid, sid, 0, NoErrorData)

ParseErrorResponse ==
    create_error_response(ERROR_INVALID_REQUEST, "Parse error", None, None, 0, NoErrorData)

(* A faulty reset that keeps what the previous invocation left. *)
reset_context_kept(self) == self

(* self.request_id = None; self.session_id = None *)
reset_context(self) == [session_id |-> None, request_id |-> None]

handle_request(self, event, tbl, t, n) ==
    LET reset == reset_context(self)
        http_method == event.httpMethod
        parsed_ok == IF http_method = "DELETE" THEN ParseDeleteOk(event)
                     ELSE ParsePostOk(event)
        rid == IF http_method = "POST" THEN event.body.id ELSE reset.request_id
        sid == event.mcp_session_id
        Finish(o) ==
            IF o.raised
            THEN Handled(Outcome(InternalErrorResponse(rid, o.session_id), o.store,
                                 o.session_id, o.calls, o.invoked), rid)
            ELSE Handled(o, rid)
    IN IF http_method \notin {"DELETE", "POST"}
       THEN Handled(Outcome(create_error_response(ERROR_INVALID_REQUEST,
                                "Unsupported HTTP method: " \o http_method,
                                None, None, 0, NoErrorData),
                            tbl, reset.session_id, << >>, << >>), reset.request_id)
       ELSE IF ~parsed_ok
       THEN Handled(Outcome(ParseErrorResponse, tbl, reset.session_id, << >>, << >>),
                    reset.request_id)
       ELSE IF http_method = "DELETE"
       THEN Finish(handle_http_delete(event, sid, tbl))
       ELSE Finish(handle_http_post(event, rid, sid, tbl, t, n))

----------------------------------------------------------------------------
(* The events the API Gateway delivers *)

Event(verb, ctype, sid, body, faults, raises) ==
    [httpMethod |-> verb, content_type |-> ctype, mcp_session_id |-> sid, body |-> body,
     faults |-> faults, raises |-> raises]

NoArguments == [kind |-> "absent", items |-> << >>]
OtherArguments == [kind |-> "other", items |-> << >>]
DictArguments(items) == [kind |-> "dict", items |-> items]

NoParams == [kind |-> "none", size |-> 0, name |-> None, arguments |-> NoArguments]
EmptyDictParams == [kind |-> "dict", size |-> 0, name |-> None, arguments |-> NoArguments]
EmptyListParams == [kind |-> "list", size |-> 0, name |-> None, arguments |-> NoArguments]
ListParams == [kind |-> "list", size |-> 1, name |-> None, arguments |-> NoArguments]
CallParams(name, arguments) ==
    [kind |-> "dict", size |-> 1, name |-> name, arguments |-> arguments]

Body(jsonrpc, id, method, params) ==
    [raw |-> "json", jsonrpc |-> jsonrpc, id |-> id, method |-> method, params |-> params]

(* A body that is no JSON text ('{invalid json here'), and no body at all *)
BadJsonBody == [raw |-> "badjson", jsonrpc |-> None, id |-> None, method |-> None,
                params |-> NoParams]
NoBody == [raw |-> "none", jsonrpc |-> None, id |-> None, method |-> None,
           params |-> NoParams]

Arg(k, v) == [k |-> k, v |-> v]

ArgumentChoices ==
    { DictArguments(<<Arg("a", PyInt(3)), Arg("b", PyInt(4))>>),
      DictArguments(<<Arg("a", PyStr("3")), Arg("b", PyInt(4))>>),
      DictArguments(<<Arg("a", PyStr("foo")), Arg("b", PyInt(4))>>),
      DictArguments(<<Arg("a", PyInt(3))>>),
      DictArguments(<<Arg("a", PyStr("foo"))>>),
      DictArguments(<<Arg("a", PyInt(3)), Arg("b", PyInt(4)), Arg("c", PyInt(1))>>),
      DictArguments(<<Arg("a", PyNone), Arg("b", PyInt(4))>>),
      NoArguments,
      OtherArguments }

GoodArguments == DictArguments(<<Arg("a", PyInt(3)), Arg("b", PyInt(4))>>)

ParamsChoices ==
    {NoParams, EmptyDictParams, EmptyListParams, ListParams}
    \cup {CallParams(name, GoodArguments) : name \in {"not_a_tool", None}}
    \cup {CallParams("not_a_tool", NoArguments)}
    \cup {CallParams("math", arguments) : arguments \in ArgumentChoices}

(* Exceptions the (patched) logic layer throws *)
Exceptions == {"RuntimeError: math error", "ValueError: boom"}

(* Session headers a client can send: none, an empty one, one never minted, *)
(* and those minted so far.                                                 *)
SessionHeaders == {None, "", "invalid-session-id"} \cup {uuid4(k) : k \in 1..issued}

RequestIds == {None, "7"}

(* Session headers naming a session: one never minted, and those minted *)
NamedHeaders == {"invalid-session-id"} \cup {uuid4(k) : k \in 1..issued}

(* Headers a client most plainly sends: none, or the first session minted *)
PlainHeaders == {None} \cup {uuid4(k) : k \in 1..(IF issued > 0 THEN 1 ELSE 0)}

(* Bodies whose parse raises *)
MalformedBodies ==
    {BadJsonBody, NoBody}
    \cup {Body(jsonrpc, "7", "tools/call", CallParams("math", GoodArguments)) :
            jsonrpc \in {"1.0", None}}
    \cup {Body("2.0", "7", method, NoParams) :
            method \in {None, "foo", "tools/unknown", "Initialize"}}

BadArguments == DictArguments(<<Arg("a", PyStr("foo")), Arg("b", PyInt(4))>>)

----------------------------------------------------------------------------
(* The state machine.  req is NoEvent while no invocation is in flight:    *)
(* Invoke runs the whole handler on one event and leaves the event and its *)
(* response; Return hands the response to the caller.                      *)

NoEvent == Event("<none>", None, None, NoBody, {}, None)

(* No function applied on its own, no concurrent invocation in flight *)
NoInput == [kind |-> "none"]
NoOutput == [kind |-> "none"]
Workers == {"w1", "w2"}
IdleWorker == [pc |-> "idle", sid |-> None, result |-> 0]

HandlerInit ==
    /\ store = [k \in {} |-> 0]
    /\ now = 0
    /\ issued = 0
    /\ session_id = None
    /\ request_id = None
    /\ req = NoEvent
    /\ resp = NoResponse
    /\ invoked = << >>
    /\ storeCalls = << >>
    /\ storeBefore = store
    /\ granted = {}
    /\ deleted = {}

Init ==
    /\ HandlerInit
    /\ input = NoInput
    /\ output = NoOutput
    /\ workers = [w \in Workers |-> IdleWorker]

(* lambda_handler(event, context): mcp.handle_request(event, context) *)
Invoke(event) ==
    /\ req = NoEvent
    /\ \E h \in {handle_request([session_id |-> session_id, request_id |-> request_id],
                                event, store, now, issued)} :
          /\ store' = h.store
          /\ session_id' = h.session_id
          /\ request_id' = h.request_id
          /\ req' = event
          /\ resp' = h.resp
          /\ invoked' = h.invoked
          /\ storeCalls' = h.calls
          /\ issued' = IF \E j \in 1..Len(h.calls) : h.calls[j] = "put_item"
                       THEN issued + 1 ELSE issued
          /\ now' = now
          /\ storeBefore' = store
          /\ granted' = IF h.resp.body.result.kind = "initialize"
                        THEN granted \cup {<<h.session_id, now>>} ELSE granted
          /\ deleted' = IF event.httpMethod = "DELETE" /\ h.calls = <<"delete_item">>
                           /\ "delete_item" \notin event.faults
                        THEN deleted \cup {event.mcp_session_id} ELSE deleted
          /\ UNCHANGED <<input, output, workers>>

Return ==
    /\ req # NoEvent
    /\ req' = NoEvent
    /\ resp' = NoResponse
    /\ invoked' = << >>
    /\ storeCalls' = << >>
    /\ storeBefore' = store
    /\ UNCHANGED <<store, now, issued, session_id, request_id, granted, deleted>>
    /\ UNCHANGED <<input, output, workers>>

Tick ==
    /\ req = NoEvent
    /\ now < MaxTicks * TickSeconds
    /\ now' = now + TickSeconds
    /\ UNCHANGED <<store, issued, session_id, request_id, req, resp, invoked, storeCalls,
                   storeBefore, granted, deleted, input, output, workers>>

(* The headers and request id of a well-formed POST: every session header *)
(* with the JSON content type, and the other content types and request    *)
(* ids with the plain headers.                                            *)
Envelopes ==
    {<<CONTENT_TYPE_JSON, sid, "7">> : sid \in SessionHeaders}
    \cup ({CONTENT_TYPE_JSON, "text/plain", None} \X PlainHeaders \X RequestIds)

JsonEnvelopes == {<<CONTENT_TYPE_JSON, sid, "7">> : sid \in SessionHeaders}

Post(env, method, params, faults, raises) ==
    Invoke(Event("POST", env[1], env[2], Body("2.0", env[3], method, params),
                 faults, raises))

Initialize ==
    /\ issued < MaxSessions
    /\ \E c \in (Envelopes \X {{}}) \cup (JsonEnvelopes \X {{"put_item"}}) :
          Post(c[1], "initialize", NoParams, c[2], None)

ToolsList == \E env \in Envelopes : Post(env, "tools/list", NoParams, {}, None)

(* tools/call: the plain call in every envelope; every params shape; the   *)
(* table calls failing; the logic layer raising.                           *)
NamedEnvelopes == {<<CONTENT_TYPE_JSON, sid, "7">> : sid \in NamedHeaders}

ToolsCallChoices ==
    (Envelopes \X {CallParams("math", GoodArguments)} \X {{}} \X {None})
    \cup (NamedEnvelopes \X ParamsChoices \X {{}} \X {None})
    \cup (NamedEnvelopes \X {CallParams("math", GoodArguments)}
             \X {{"get_item"}, {"update_item"}} \X {None})
    \cup (NamedEnvelopes
             \X {CallParams("math", GoodArguments), CallParams("math", BadArguments)}
             \X {{}} \X Exceptions)

ToolsCall == \E c \in ToolsCallChoices : Post(c[1], "tools/call", c[2], c[3], c[4])

Ping == \E env \in Envelopes : Post(env, "ping", NoParams, {}, None)

Notification ==
    \E c \in (Envelopes \X {"notifications/initialized"})
              \cup (JsonEnvelopes \X {"notifications/cancelled", "notification"}) :
       Post(c[1], c[2], NoParams, {}, None)

Delete ==
    \E c \in ({CONTENT_TYPE_JSON} \X SessionHeaders \X {{}, {"delete_item"}})
              \cup ({None} \X PlainHeaders \X {{}}) :
       Invoke(Event("DELETE", c[1], c[2], NoBody, c[3], None))

(* Events whose parse raises: a bad body, or an empty content-type header *)
MalformedChoices ==
    ({"POST"} \X {CONTENT_TYPE_JSON} \X PlainHeaders \X MalformedBodies)
    \cup ({"POST"} \X {CONTENT_TYPE_JSON} \X SessionHeaders \X {BadJsonBody})
    \cup ({"POST"} \X {"text/plain"} \X {None} \X MalformedBodies)
    \cup ({"POST", "DELETE"} \X {""} \X PlainHeaders \X {Body("2.0", "7", "ping", NoParams)})

Malformed == \E c \in MalformedChoices : Invoke(Event(c[1], c[2], c[3], c[4], {}, None))

OtherVerb ==
    \E verb \in {"GET", "PUT"}, sid \in PlainHeaders :
       Invoke(Event(verb, CONTENT_TYPE_JSON, sid, NoBody, {}, None))

Next ==
    \/ Tick
    \/ Initialize
    \/ ToolsList
    \/ ToolsCall
    \/ Ping
    \/ Notification
    \/ Delete
    \/ Malformed
    \/ OtherVerb
    \/ Return

Spec == Init /\ [][Next]_vars

----------------------------------------------------------------------------
(* Functions of the code applied on their own: the tool decorator, the     *)
(* argument validator and the session store's get_session, each on inputs  *)
(* drawn from bounded sets.                                                *)

MaxParams == 2

ParamNames == <<"a", "b", "c", "d">>

handler_vars == <<store, now, issued, session_id, request_id, req, resp, invoked,
                  storeCalls, storeBefore, granted, deleted>>

(* inspect.signature of a function with up to MaxParams parameters, each   *)
(* with a type hint from hint_types and with or without a default.         *)
Signatures(hint_types) ==
    UNION { { [j \in 1..n |-> [name |-> ParamNames[j], type |-> f[j][1],
                               has_default |-> f[j][2]]] :
                f \in [1..n -> hint_types \X BOOLEAN] } : n \in 0..MaxParams }

(* Argument dicts, in every insertion order: keys among the parameter      *)
(* names and the undeclared key z, values an int or a text that is no      *)
(* number.                                                                 *)
SuppliedKeys == {ParamNames[j] : j \in 1..MaxParams} \cup {"z"}

SuppliedItems == {Arg(k, v) : k \in SuppliedKeys, v \in {PyInt(3), PyStr("x")}}

SuppliedArguments ==
    UNION { { q \in [1..n -> SuppliedItems] :
                \A i, j \in 1..n : i # j => q[i].k # q[j].k } :
            n \in 0..Cardinality(SuppliedKeys) }

(* Values supplied for one parameter of a primitive type *)
CoerceValues ==
    {PyInt(3), PyInt(0), PyInt(0 - 2), PyBool(TRUE), PyBool(FALSE), PyFloat(35), PyFloat(0),
     PyNone}
    \cup {PyStr(x) : x \in {"5", "-7", "3.5", "foo", "", "true", "True", "YES", "1", "on",
                            "On", "false", "No", "0", "OFF", "2", "maybe", "t", " true"}}

PrimitiveTypes == {"int", "float", "bool", "str"}

(* The hints of the validation tests that are not primitive, and values    *)
(* supplied for them.                                                      *)
StructuredTypes ==
    {"TestEnum", "Optional[int]", "Optional[TestEnum]", "List[str]", "Dict[str, int]"}

StructuredValues ==
    {PyStr("value1"), PyStr("VALUE1"), PyStr("invalid-value"), PyStr("42"),
     PyStr("not-an-int"), PyInt(42), PyInt(3), PyBool(TRUE), PyFloat(420), PyInf, PyNone,
     PyList("['item1', 'item2']"), PyDict("{'key1': 1}")}

ValidateInputs ==
    {[kind |-> "validate", signature |-> sig, arguments |-> args] :
        sig \in Signatures({"int", "str"}), args \in SuppliedArguments}
    \cup {[kind |-> "validate",
           signature |-> <<[name |-> "a", type |-> T, has_default |-> FALSE]>>,
           arguments |-> <<Arg("a", v)>>] : T \in PrimitiveTypes, v \in CoerceValues}
    \cup {[kind |-> "validate",
           signature |-> <<[name |-> "a", type |-> T, has_default |-> FALSE]>>,
           arguments |-> <<Arg("a", v)>>] :
              T \in StructuredTypes \cup {"int", "str"}, v \in StructuredValues}

RegisterInputs ==
    {[kind |-> "register", func |-> Func(name, doc, descriptions, sig)] :
        name \in {"math", "add_two_numbers"},
        doc \in {"Add two numbers together", "Add.\n\nArgs:\n    a: first"},
        descriptions \in {<< >>, <<Arg("a", "first")>>},
        sig \in Signatures({"int", "bool", None})}

(* Tables get_session can find: no item, an item create_session wrote at   *)
(* time 0 (with or without data written since), and an item a bare         *)
(* UpdateItem created.                                                     *)
StoredItems ==
    {[expires_at |-> SESSION_TTL, created_at |-> 0, data |-> data] :
        data \in {NoData, ResultData(7)}}
    \cup {[expires_at |-> Absent, created_at |-> Absent, data |-> ResultData(7)]}

GetSessionInputs ==
    {[kind |-> "get_session", table |-> tbl, sid |-> sid, t |-> t, faults |-> faults] :
        tbl \in {[k \in {} |-> 0]} \cup {[k \in {uuid4(1)} |-> item] : item \in StoredItems},
        sid \in {uuid4(1), "invalid-session-id"},
        t \in {0, SESSION_TTL - 1, SESSION_TTL, SESSION_TTL + 1, 2 * SESSION_TTL},
        faults \in {{}, {"get_item"}, {"delete_item"}}}

FunctionsInit ==
    /\ HandlerInit
    /\ input \in ValidateInputs \cup RegisterInputs \cup GetSessionInputs
    /\ output = NoOutput
    /\ workers = [w \in Workers |-> IdleWorker]

(* @mcp.tool() applied to a function *)
Register ==
    /\ input.kind = "register"
    /\ output = NoOutput
    /\ output' = [kind |-> "registered", value |-> tool(input.func)]
    /\ UNCHANGED <<handler_vars, input, workers>>

(* _validate_tool_args applied to a signature and an argument dict *)
Validate ==
    /\ input.kind = "validate"
    /\ output = NoOutput
    /\ output' = [kind |-> "validated",
                  value |-> validate_tool_args(input.arguments, input.signature,
                                               "7", uuid4(1))]
    /\ UNCHANGED <<handler_vars, input, workers>>

(* DynamoDBSessionStore.get_session applied to a table at a time *)
GetSession ==
    /\ input.kind = "get_session"
    /\ output = NoOutput
    /\ output' = [kind |-> "got",
                  value |-> get_session(input.table, input.sid, input.t, input.faults)]
    /\ UNCHANGED <<handler_vars, input, workers>>

FunctionsNext ==
    \/ Register
    \/ Validate
    \/ GetSession

SpecFunctions == FunctionsInit /\ [][FunctionsNext]_vars

----------------------------------------------------------------------------
(* Concurrent invocations.  Each Lambda execution environment handles one  *)
(* invocation at a time, but several environments share the one sessions   *)
(* table, so the table calls of different invocations interleave.  A       *)
(* worker is one environment executing tools/call for the tool math: its   *)
(* steps are the table calls of _validate_session (GetItem, then           *)
(* DeleteItem when the item has expired) and of the tool's set_session     *)
(* (UpdateItem).  initialize and DELETE make one table call each.          *)

worker_vars == <<session_id, request_id, req, resp, invoked, storeCalls, storeBefore,
                 input, output>>

(* The sums a + b the tool computes *)
Sums == {3 + 4, 4 + 5}

(* initialize: create_session, one PutItem *)
WInitialize ==
    /\ issued < MaxSessions
    /\ LET Created(c) == /\ store' = c.store
                         /\ granted' = granted \cup {<<c.ret, now>>}
       IN Created(create_session(store, issued + 1, now, {}))
    /\ issued' = issued + 1
    /\ UNCHANGED <<now, deleted, workers, worker_vars>>

(* DELETE with the session header s: delete_session, one DeleteItem.  The  *)
(* header names an identifier initialize has issued: uuid4 identifiers     *)
(* cannot be named before they are minted.                                 *)
WDelete(s) ==
    /\ \E g \in granted : g[1] = s
    /\ store' = delete_session(store, s, {}).store
    /\ deleted' = deleted \cup {s}
    /\ UNCHANGED <<now, issued, granted, workers, worker_vars>>

(* tools/call, _validate_session: the GetItem of get_session and the       *)
(* expiry test on the item read                                            *)
WValidate(w, s, result) ==
    /\ workers[w].pc = "idle"
    /\ workers' = [workers EXCEPT ![w] =
          [pc |-> IF ~HasItem(store, s) THEN "rejected"
                  ELSE IF ExpiresAt(store[s]) < now THEN "expired"
                  ELSE "validated",
           sid |-> s, result |-> result]]
    /\ UNCHANGED <<store, now, issued, granted, deleted, worker_vars>>

(* get_session on an expired item: the DeleteItem of delete_session *)
WExpire(w) ==
    /\ workers[w].pc = "expired"
    /\ store' = delete_session(store, workers[w].sid, {}).store
    /\ workers' = [workers EXCEPT ![w].pc = "rejected"]
    /\ UNCHANGED <<now, issued, granted, deleted, worker_vars>>

(* math: set_session({'result': result}), one UpdateItem *)
WWrite(w) ==
    /\ workers[w].pc = "validated"
    /\ store' = set_session(workers[w].sid, ResultData(workers[w].result), store, {}).store
    /\ workers' = [workers EXCEPT ![w].pc = "done"]
    /\ UNCHANGED <<now, issued, granted, deleted, worker_vars>>

(* The response is returned and the environment is free again. *)
WReturn(w) ==
    /\ workers[w].pc \in {"rejected", "done"}
    /\ workers' = [workers EXCEPT ![w] = IdleWorker]
    /\ UNCHANGED <<store, now, issued, granted, deleted, worker_vars>>

WorkersNext ==
    \/ WInitialize
    \/ \E s \in {uuid4(n) : n \in 1..MaxSessions} : WDelete(s)
    \/ \E w \in Workers, s \in {uuid4(n) : n \in 1..MaxSessions}, result \in Sums :
          WValidate(w, s, result)
    \/ \E w \in Workers : WExpire(w)
    \/ \E w \in Workers : WWrite(w)
    \/ \E w \in Workers : WReturn(w)
    \/ Tick

SpecWorkers == Init /\ [][WorkersNext]_vars

----------------------------------------------------------------------------
(* Vocabulary of the properties.  A property speaks of the state Invoke     *)
(* leaves: req is the request just handled, resp its response, storeBefore *)
(* the table the handler found, store the table it left, storeCalls and    *)
(* invoked the table calls and tool invocations it made.                   *)

(* A POST with the JSON content type whose body is JSON-RPC 2.0 text *)
JsonRpcPost ==
    /\ req.httpMethod = "POST"
    /\ req.content_type = CONTENT_TYPE_JSON
    /\ req.body.raw = "json"
    /\ req.body.jsonrpc = "2.0"

(* A DELETE whose envelope parses (its content-type header is not empty) *)
DeleteRequest == req.httpMethod = "DELETE" /\ req.content_type # ""

IsError(code, message, status) ==
    /\ resp.body.kind = "error"
    /\ resp.body.code = code
    /\ resp.body.message = message
    /\ resp.statusCode = status

StoreUntouched == storeCalls = << >> /\ store = storeBefore

(* s was returned by an initialize and the clock is not past its expiry *)
GrantedUnexpired(s) == \E g \in granted : g[1] = s /\ now <= g[2] + SESSION_TTL

(* s was returned by an initialize and the clock is past its expiry *)
GrantedExpired(s) == \E g \in granted : g[1] = s /\ now > g[2] + SESSION_TTL

NeverGranted(s) == \A g \in granted : g[1] # s

(* A method name outside the recognised ones and the notifications/ family *)
Unrecognized(m) ==
    /\ m # None
    /\ m \notin {"initialize", "tools/list", "tools/call", "ping"}
    /\ ~startswith(m, "notifications/")

(* Arguments of math that pass validation: a and b as integers or integer *)
(* text, with or without an undeclared key.                               *)
ValidMathArguments ==
    { DictArguments(<<Arg("a", PyInt(3)), Arg("b", PyInt(4))>>),
      DictArguments(<<Arg("a", PyStr("3")), Arg("b", PyInt(4))>>),
      DictArguments(<<Arg("a", PyInt(3)), Arg("b", PyInt(4)), Arg("c", PyInt(1))>>) }

----------------------------------------------------------------------------
(* C1: round trip.  A tools/call for math with valid arguments a=3, b=4,   *)
(* carrying a session identifier that an initialize returned, that no      *)
(* DELETE removed and that is not past its expiry, the session lookup and  *)
(* the callable not failing, returns HTTP 200 with a result whose content  *)
(* is exactly one text item holding "7".                                   *)
C1_RoundTripCall ==
    /\ JsonRpcPost
    /\ req.body.method = "tools/call"
    /\ req.body.params.kind = "dict"
    /\ req.body.params.size > 0
    /\ req.body.params.name = "math"
    /\ req.body.params.arguments \in ValidMathArguments
    /\ GrantedUnexpired(req.mcp_session_id)
    /\ req.mcp_session_id \notin deleted
    /\ "get_item" \notin req.faults
    /\ req.raises = None

C1_RoundTrip ==
    C1_RoundTripCall =>
        /\ resp.statusCode = 200
        /\ resp.body.kind = "result"
        /\ resp.body.id = req.body.id
        /\ resp.body.result.content = <<[type |-> "text", text |-> "7"]>>
        /\ invoked = <<"math">>

C1_Witness ==
    /\ C1_RoundTripCall
    /\ req.body.params.arguments = GoodArguments
    /\ now > 0
    /\ resp.statusCode = 200
    /\ resp.body.result.content = <<[type |-> "text", text |-> "7"]>>

----------------------------------------------------------------------------
(* C2: a POST without a session identifier whose method is tools/list,     *)
(* tools/call or ping returns InvalidRequest (-32600) "Session required"   *)
(* with HTTP 400; no session is created, the table is not touched and no   *)
(* tool is invoked.                                                        *)
C2_NoSessionCall ==
    /\ JsonRpcPost
    /\ req.body.method \in {"tools/list", "tools/call", "ping"}
    /\ ~Truthy(req.mcp_session_id)

C2_SessionRequired ==
    C2_NoSessionCall =>
        /\ IsError(-32600, "Session required", 400)
        /\ StoreUntouched
        /\ \A h \in resp.headers : h[1] # "MCP-Session-Id"
        /\ invoked = << >>

C2_Witness ==
    /\ C2_NoSessionCall
    /\ req.mcp_session_id = None
    /\ req.body.method = "tools/list"
    /\ DOMAIN store # {}
    /\ resp.statusCode = 400

----------------------------------------------------------------------------
(* C3: a tools/call with non-empty params carrying a session identifier    *)
(* that is not live -- never returned by an initialize, deleted by a       *)
(* DELETE, or past its expiry -- returns ServerError (-32000) "Invalid or  *)
(* expired session" with HTTP 404 and invokes no tool, whatever requests   *)
(* came before.                                                            *)
C3_DeadSessionCall ==
    /\ JsonRpcPost
    /\ req.body.method = "tools/call"
    /\ req.body.params.kind # "none"
    /\ req.body.params.size > 0
    /\ Truthy(req.mcp_session_id)
    /\ \/ NeverGranted(req.mcp_session_id)
       \/ req.mcp_session_id \in deleted
       \/ GrantedExpired(req.mcp_session_id)

C3_InvalidSession ==
    C3_DeadSessionCall =>
        /\ IsError(-32000, "Invalid or expired session", 404)
        /\ invoked = << >>

(* The expired case: the record was still in the table when the call came *)
C3_Witness ==
    /\ C3_DeadSessionCall
    /\ GrantedExpired(req.mcp_session_id)
    /\ req.mcp_session_id \notin deleted
    /\ HasItem(storeBefore, req.mcp_session_id)
    /\ storeBefore[req.mcp_session_id].data # NoData
    /\ resp.statusCode = 404

----------------------------------------------------------------------------
(* C4: a DELETE carrying a session identifier returns HTTP 204 whether or  *)
(* not the table holds a record for it, and afterwards (the DeleteItem     *)
(* call not failing) the table holds none; a DELETE carrying no session    *)
(* identifier returns HTTP 404 and leaves the table unchanged.             *)
C4_Delete ==
    DeleteRequest =>
        /\ Truthy(req.mcp_session_id) =>
              /\ resp.statusCode = 204
              /\ "delete_item" \notin req.faults => ~HasItem(store, req.mcp_session_id)
        /\ ~Truthy(req.mcp_session_id) =>
              /\ resp.statusCode = 404
              /\ StoreUntouched

C4_Witness ==
    /\ DeleteRequest
    /\ HasItem(storeBefore, req.mcp_session_id)
    /\ ~HasItem(store, req.mcp_session_id)
    /\ resp.statusCode = 204

----------------------------------------------------------------------------
(* C5 as stated: a DELETE naming a session the table does not hold returns *)
(* HTTP 404.                                                               *)
C5_AbsentSessionDelete ==
    /\ DeleteRequest
    /\ Truthy(req.mcp_session_id)
    /\ ~HasItem(storeBefore, req.mcp_session_id)

C5_AsStated == C5_AbsentSessionDelete => resp.statusCode = 404

(* C5: a DELETE naming a session the table does not hold (never created,   *)
(* or deleted by an earlier DELETE) returns HTTP 204 and leaves the table  *)
(* as it was, so the second of two DELETEs gets the response of a DELETE   *)
(* for a session that never existed; 404 answers only the DELETE without a *)
(* session identifier.                                                     *)
C5_AbsentSessionDeleted ==
    /\ C5_AbsentSessionDelete => resp.statusCode = 204 /\ store = storeBefore
    /\ DeleteRequest /\ resp.statusCode = 404 => ~Truthy(req.mcp_session_id)

(* The second DELETE of a session *)
C5_Witness ==
    /\ C5_AbsentSessionDelete
    /\ req.mcp_session_id \in deleted
    /\ ~NeverGranted(req.mcp_session_id)
    /\ resp.statusCode = 204

----------------------------------------------------------------------------
(* C6: a POST whose method name starts with notifications/ returns HTTP    *)
(* 202 with an empty body whatever the session header (none, unknown,      *)
(* live), makes no table call and invokes no tool.                         *)
C6_NotificationPost ==
    /\ JsonRpcPost
    /\ req.body.method # None
    /\ startswith(req.body.method, "notifications/")

C6_Notification ==
    C6_NotificationPost =>
        /\ resp.statusCode = 202
        /\ resp.body.kind = "empty"
        /\ StoreUntouched
        /\ invoked = << >>

C6_Witness ==
    /\ C6_NotificationPost
    /\ HasItem(store, req.mcp_session_id)
    /\ resp.statusCode = 202

----------------------------------------------------------------------------
(* C7: every POST whose body is not JSON text, whose jsonrpc is missing or *)
(* not "2.0", or whose method is missing gets one and the same response:   *)
(* InvalidRequest (-32600) "Parse error", HTTP 400, with or without a      *)
(* session identifier; the table is not touched.                           *)
C7_UnparsablePost ==
    /\ req.httpMethod = "POST"
    /\ \/ req.body.raw # "json"
       \/ req.body.jsonrpc # "2.0"
       \/ req.body.method = None

C7_ParseError ==
    C7_UnparsablePost =>
        /\ IsError(-32600, "Parse error", 400)
        /\ resp.body.id = None
        /\ resp.body.data = NoErrorData
        /\ resp.headers = StdHeaders
        /\ StoreUntouched
        /\ invoked = << >>

(* A wrong jsonrpc literal on a request naming a live session *)
C7_Witness ==
    /\ C7_UnparsablePost
    /\ req.body.raw = "json"
    /\ req.body.jsonrpc = "1.0"
    /\ HasItem(store, req.mcp_session_id)
    /\ resp.statusCode = 400

----------------------------------------------------------------------------
(* C8 as stated: a POST whose method is none of initialize, tools/list,    *)
(* tools/call, ping and does not start with notifications/ returns         *)
(* InvalidRequest (-32600) "Parse error" with HTTP 400.                    *)
C8_UnrecognizedIsParseError ==
    /\ JsonRpcPost
    /\ Unrecognized(req.body.method)
    => IsError(-32600, "Parse error", 400)

----------------------------------------------------------------------------
(* C9 as stated: a POST carrying a session identifier and an unrecognized  *)
(* method name returns MethodNotFound (-32601) with HTTP 404.              *)
C9_UnrecognizedWithSession ==
    /\ JsonRpcPost
    /\ Unrecognized(req.body.method)
    /\ Truthy(req.mcp_session_id)

----------------------------------------------------------------------------
(* C10: when the tool callable raises during a tools/call, the response is *)
(* InternalError (-32603) "Error executing tool" with HTTP 500, carrying   *)
(* the request's session identifier and id and nothing else; the same      *)
(* request with any other exception raised gets the identical response.    *)
C10_ToolRaised ==
    /\ JsonRpcPost
    /\ req.body.method = "tools/call"
    /\ invoked # << >>
    /\ \/ req.raises # None
       \/ \E j \in 1..Len(req.body.params.arguments.items) :
             req.body.params.arguments.items[j].v = PyNone

C10_ToolError ==
    C10_ToolRaised =>
        /\ resp = [statusCode |-> 500,
                   headers |-> {<<"Content-Type", "application/json">>,
                                <<"MCP-Version", "0.6">>,
                                <<"MCP-Session-Id", req.mcp_session_id>>},
                   body |-> [kind |-> "error", id |-> req.body.id, code |-> -32603,
                             message |-> "Error executing tool", data |-> NoErrorData,
                             result |-> NoResult]]
        /\ \A e \in Exceptions :
              handle_request([session_id |-> None, request_id |-> None],
                             [req EXCEPT !.raises = e], storeBefore, now, issued).resp = resp

C10_Witness ==
    /\ C10_ToolRaised
    /\ req.raises = "ValueError: boom"
    /\ invoked = <<"math">>
    /\ resp.statusCode = 500

----------------------------------------------------------------------------
(* C11: every response handle_request returns -- unsupported verb, parse   *)
(* failure, notification, DELETE (204 and 404), internal error, success -- *)
(* carries a Content-Type header and an MCP-Version header.                *)
C11_StandardHeaders ==
    req # NoEvent =>
        /\ \E h \in resp.headers : h[1] = "Content-Type"
        /\ \E h \in resp.headers : h[1] = "MCP-Version"

----------------------------------------------------------------------------
(* C12: every response to a request that carried a session identifier     *)
(* carries that identifier in its MCP-Session-Id header, and the response  *)
(* to an initialize carries the identifier it created, on every path.      *)
C12_SessionHeaderEchoed ==
    req # NoEvent =>
        IF resp.body.result.kind = "initialize"
        THEN \E h \in resp.headers : h[1] = "MCP-Session-Id" /\ HasItem(store, h[2])
        ELSE Truthy(req.mcp_session_id) =>
                <<"MCP-Session-Id", req.mcp_session_id>> \in resp.headers

----------------------------------------------------------------------------
(* C18: in every response the HTTP status agrees with the outcome: parse   *)
(* error, invalid request and invalid params have 400, method not found    *)
(* 404, internal error 500, server error 404, a result 200, a notification *)
(* 202, a session deletion 204, or 404 when no session identifier came.    *)
C18_StatusAgrees ==
    req # NoEvent =>
        /\ resp.body.kind \in {"error", "result", "empty", "absent"}
        /\ resp.body.kind = "error" =>
              /\ resp.body.code \in {-32700, -32600, -32602, -32601, -32603, -32000}
              /\ resp.body.code \in {-32700, -32600, -32602} => resp.statusCode = 400
              /\ resp.body.code = -32601 => resp.statusCode = 404
              /\ resp.body.code = -32603 => resp.statusCode = 500
              /\ resp.body.code = -32000 => resp.statusCode = 404
        /\ resp.body.kind = "result" => resp.statusCode = 200
        /\ resp.body.kind = "empty" => resp.statusCode = 202
        /\ resp.body.kind = "absent" =>
              /\ req.httpMethod = "DELETE"
              /\ resp.statusCode = IF Truthy(req.mcp_session_id) THEN 204 ELSE 404

(* An invalid-params answer of the argument validator *)
C18_Witness ==
    /\ req # NoEvent
    /\ resp.body.kind = "error"
    /\ resp.body.code = -32602
    /\ resp.body.data # NoErrorData
    /\ resp.statusCode = 400

----------------------------------------------------------------------------
(* Vocabulary of the properties of the argument validator: what the input  *)
(* of a Validate step declares and supplies.                               *)

Validated == input.kind = "validate" /\ output.kind = "validated"

Supplied(name) == \E j \in 1..Len(input.arguments) : input.arguments[j].k = name

Declared(name) == \E j \in 1..Len(input.signature) : input.signature[j].name = name

(* The declared parameters without default that are not supplied, in      *)
(* declaration order                                                      *)
MissingParameters ==
    LET Lacks(p) == ~p.has_default /\ ~Supplied(p.name)
        lacking == SelectSeq(input.signature, Lacks)
    IN [j \in 1..Len(lacking) |-> lacking[j].name]

(* Whether a value converts to a declared type *)
Coerces(v, T) ==
    \/ v = PyNone
    \/ T \in {None, "str"}
    \/ T = "int" /\ (v.t \in {"int", "bool"} \/ (v.t = "float" /\ v # PyInf)
                     \/ (v.t = "str" /\ IsIntLiteral(v.s)))
    \/ T = "float" /\ (v.t \in {"int", "bool", "float"} \/ (v.t = "str" /\ IsFloatLiteral(v.s)))
    \/ T = "bool" /\ (v.t \in {"int", "bool", "float"}
                      \/ (v.t = "str" /\ lower(v.s) \in {"true", "yes", "1", "on",
                                                          "false", "no", "0", "off"}))

AllSuppliedCoerce ==
    \A j \in 1..Len(input.arguments), k \in 1..Len(input.signature) :
        input.arguments[j].k = input.signature[k].name
            => Coerces(input.arguments[j].v, input.signature[k].type)

----------------------------------------------------------------------------
(* C13: when the declared parameters that have no default and are not      *)
(* supplied are M # {}, validation returns an InvalidParams (-32602, 400)  *)
(* error whose message names exactly the parameters of M in declaration    *)
(* order, returns no converted arguments, and the tool is not invoked.     *)
C13_MissingRequired ==
    Validated /\ Len(MissingParameters) > 0 =>
        /\ output.value.err
        /\ output.value.args = << >>
        /\ output.value.resp.body.kind = "error"
        /\ output.value.resp.body.code = -32602
        /\ output.value.resp.statusCode = 400
        /\ output.value.resp.body.message
              = "Missing required parameters: " \o Join(MissingParameters, ", ")
        /\ input.signature = math_signature =>
              call_tool("math", DictArguments(input.arguments),
                        Event("POST", CONTENT_TYPE_JSON, uuid4(1), NoBody, {}, None),
                        "7", uuid4(1), store, << >>).invoked = << >>

(* Two parameters missing while an undeclared key is supplied *)
C13_Witness ==
    /\ Validated
    /\ Len(MissingParameters) = 2
    /\ Supplied("z")
    /\ output.value.resp.body.message = "Missing required parameters: a, b"

----------------------------------------------------------------------------
(* C14: when every required parameter is supplied and every supplied value *)
(* coerces, validation succeeds, undeclared keys or not, and the keys of   *)
(* the converted arguments are exactly the supplied keys that are declared.*)
C14_UndeclaredDropped ==
    Validated /\ Len(MissingParameters) = 0 /\ AllSuppliedCoerce =>
        /\ ~output.value.err
        /\ Keys(output.value.args) = {k \in Keys(input.arguments) : Declared(k)}
        /\ Len(output.value.args) = Cardinality(Keys(output.value.args))

C14_Witness ==
    /\ Validated
    /\ Len(MissingParameters) = 0
    /\ AllSuppliedCoerce
    /\ Supplied("z")
    /\ Len(input.signature) = 2
    /\ Keys(output.value.args) = {"a", "b"}

----------------------------------------------------------------------------
(* C15: for a parameter declared bool and a supplied text, the value       *)
(* converts to true iff its lower-cased form is one of true, yes, 1, on,   *)
(* to false iff it is one of false, no, 0, off, and any other text yields  *)
(* an InvalidParams error.                                                 *)
C15_BoolText ==
    /\ Validated
    /\ Len(input.signature) = 1
    /\ input.signature[1].type = "bool"
    /\ Len(input.arguments) = 1
    /\ input.arguments[1].k = input.signature[1].name
    /\ input.arguments[1].v.t = "str"

C15_BooleanWords ==
    C15_BoolText =>
        LET word == lower(input.arguments[1].v.s)
            yes == ~output.value.err /\ output.value.args = <<Arg("a", PyBool(TRUE))>>
            no == ~output.value.err /\ output.value.args = <<Arg("a", PyBool(FALSE))>>
        IN /\ yes <=> word \in {"true", "yes", "1", "on"}
           /\ no <=> word \in {"false", "no", "0", "off"}
           /\ ~yes /\ ~no =>
                 /\ output.value.err
                 /\ output.value.resp.body.code = -32602
                 /\ output.value.args = << >>

C15_Witness ==
    /\ C15_BoolText
    /\ input.arguments[1].v.s = "maybe"
    /\ output.value.err

----------------------------------------------------------------------------
(* C16: coercion is idempotent on primitives: when validation of values    *)
(* for parameters declared int, float, bool or str succeeds, validating    *)
(* the converted arguments again succeeds and returns them unchanged.      *)
C16_Converted ==
    /\ Validated
    /\ \A j \in 1..Len(input.signature) : input.signature[j].type \in PrimitiveTypes
    /\ ~output.value.err

C16_Idempotent ==
    C16_Converted =>
        LET again == validate_tool_args(output.value.args, input.signature, "7", uuid4(1))
        IN ~again.err /\ again.args = output.value.args

(* A text converted to a float, then validated again *)
C16_Witness ==
    /\ C16_Converted
    /\ Len(input.signature) = 1
    /\ input.signature[1].type = "float"
    /\ input.arguments = <<Arg("a", PyStr("3.5"))>>
    /\ output.value.args = <<Arg("a", PyFloat(35))>>

----------------------------------------------------------------------------
(* C17: in every tool descriptor built at registration, a parameter is in  *)
(* inputSchema.required if and only if it has no default value.            *)
C17_RequiredIffNoDefault ==
    input.kind = "register" /\ output.kind = "registered" =>
        \A j \in 1..Len(input.func.signature) :
            LET p == input.func.signature[j]
                required == output.value.inputSchema.required
            IN (\E k \in 1..Len(required) : required[k] = p.name) <=> ~p.has_default

----------------------------------------------------------------------------
(* C19: get_session never returns the data of an expired session: run at a *)
(* time later than the record's expiry it returns None and (the table      *)
(* calls not failing) removes the record; it returns data only when the    *)
(* record exists and is not past its expiry, and then the stored data. (A  *)
(* record without expires_at has no expiry to be past.)                    *)
C19_Got == input.kind = "get_session" /\ output.kind = "got"

C19_PastExpiry ==
    /\ HasItem(input.table, input.sid)
    /\ input.table[input.sid].expires_at # Absent
    /\ input.t > input.table[input.sid].expires_at

C19_NeverExpiredData ==
    C19_Got =>
        /\ C19_PastExpiry =>
              /\ ~output.value.found
              /\ input.faults = {} => ~HasItem(output.value.store, input.sid)
        /\ output.value.found =>
              /\ HasItem(input.table, input.sid)
              /\ input.table[input.sid].expires_at # Absent
                    => input.t <= input.table[input.sid].expires_at
              /\ output.value.ret = input.table[input.sid].data
              /\ output.value.store = input.table
        /\ /\ HasItem(input.table, input.sid)
           /\ input.table[input.sid].expires_at # Absent
           /\ input.t <= input.table[input.sid].expires_at
           /\ input.faults = {}
           => output.value.found

(* One second past the expiry of a session holding data *)
C19_Witness ==
    /\ C19_Got
    /\ C19_PastExpiry
    /\ input.t = input.table[input.sid].expires_at + 1
    /\ input.table[input.sid].data = ResultData(7)
    /\ ~output.value.found
    /\ ~HasItem(output.value.store, input.sid)

----------------------------------------------------------------------------
(* C20: in every reachable state every session record in the store has a   *)
(* creation time and an expiry time with expires_at = created_at + 24h.    *)
C20_RecordsKeepExpiry ==
    \A s \in DOMAIN store :
        /\ store[s].created_at # Absent
        /\ store[s].expires_at # Absent
        /\ store[s].expires_at = store[s].created_at + SESSION_TTL

----------------------------------------------------------------------------
(* C21: last write wins on session data.  The step in which a math call    *)
(* writes leaves exactly {result: a + b} as the data of its session, and   *)
(* the data of a session changes in no other step: under every             *)
(* interleaving the data stored is the whole document of the call whose    *)
(* update was applied last, never a merge and never another value.         *)
C21_Writes(w) == workers[w].pc = "validated" /\ workers'[w].pc = "done"

C21_LastWriteWins ==
    [][/\ \A w \in Workers :
             C21_Writes(w) =>
                /\ HasItem(store', workers[w].sid)
                /\ store'[workers[w].sid].data = ResultData(workers[w].result)
       /\ \A s \in DOMAIN store' :
             \/ /\ HasItem(store, s)
                /\ store'[s].data = store[s].data
             \/ /\ ~HasItem(store, s)
                /\ store'[s].data = NoData
                /\ \A w \in Workers : ~C21_Writes(w)
             \/ \E w \in Workers :
                   /\ C21_Writes(w)
                   /\ workers[w].sid = s
                   /\ store'[s].data = ResultData(workers[w].result)]_vars

(* Two calls on one session have both written, different sums; the data   *)
(* is the document of one of them.                                        *)
C21_Witness ==
    /\ workers["w1"].pc = "done"
    /\ workers["w2"].pc = "done"
    /\ workers["w1"].sid = workers["w2"].sid
    /\ workers["w1"].result # workers["w2"].result
    /\ HasItem(store, workers["w1"].sid)
    /\ store[workers["w1"].sid].data = ResultData(workers["w2"].result)

----------------------------------------------------------------------------
(* C27: once a DELETE for session s has returned 204, the store holds no   *)
(* record keyed by s in any later state, under every interleaving with     *)
(* tools/call requests for s that passed their session check before.       *)
C27_DeletedStaysDeleted ==
    \A s \in deleted : ~HasItem(store, s)

----------------------------------------------------------------------------
(* C22: when a session store operation fails with an exception while a     *)
(* request is handled (the creation during initialize, the lookup during   *)
(* tools/call, the deletion during DELETE) the response is InternalError   *)
(* (-32603) with HTTP 500, carrying the request identifier and, if known,  *)
(* the session identifier.                                                 *)
C22_StoreFailed ==
    \/ /\ JsonRpcPost
       /\ req.body.method = "initialize"
       /\ storeCalls = <<"put_item">>
       /\ "put_item" \in req.faults
    \/ /\ JsonRpcPost
       /\ req.body.method = "tools/call"
       /\ storeCalls = <<"get_item">>
       /\ "get_item" \in req.faults
    \/ /\ DeleteRequest
       /\ storeCalls = <<"delete_item">>
       /\ "delete_item" \in req.faults

C22_StoreFailureIsInternalError ==
    C22_StoreFailed =>
        /\ IsError(ERROR_INTERNAL, "Internal server error", HTTP_INTERNAL_SERVER_ERROR)
        /\ resp.body.id = req.body.id
        /\ Truthy(req.mcp_session_id) => SessionHeader(req.mcp_session_id) \subseteq resp.headers

----------------------------------------------------------------------------
(* C23: for a parameter declared int, float, bool or str, a supplied       *)
(* non-null value passes unchanged only when its runtime type is exactly   *)
(* the declared one, every other value is converted, and on success the    *)
(* converted value has exactly the declared runtime type.                  *)
C23_PrimitiveConverted ==
    /\ Validated
    /\ Len(input.signature) = 1
    /\ input.signature[1].type \in PrimitiveTypes
    /\ Len(input.arguments) = 1
    /\ input.arguments[1].k = input.signature[1].name
    /\ input.arguments[1].v # PyNone
    /\ ~output.value.err

C23_ExactType ==
    C23_PrimitiveConverted =>
        /\ output.value.args[1].v.t = input.signature[1].type
        /\ output.value.args[1].v = input.arguments[1].v
              => input.arguments[1].v.t = input.signature[1].type

----------------------------------------------------------------------------
(* C24: on any coercion failure the error is InvalidParams (-32602) and    *)
(* its data holds `expected`, the description of the parameter's declared  *)
(* type (the primitive name, "enum [v1, v2, ...]", "optional <inner>",     *)
(* "list of <inner>", "dictionary with <k> keys and <v> values"), and      *)
(* `received`, the runtime type name of the supplied value.  For bool both *)
(* 'bool' and 'boolean' are taken as the primitive name.                   *)
C24_CoercionFailed ==
    /\ Validated
    /\ Len(input.signature) = 1
    /\ Len(input.arguments) = 1
    /\ input.arguments[1].k = input.signature[1].name
    /\ output.value.err

C24_Described(T) ==
    CASE T = "bool" -> {"bool", "boolean"}
      [] T \in {"int", "float", "str"} -> {T}
      [] T = "TestEnum" -> {"enum [value1, value2, 42]"}
      [] T = "Optional[int]" -> {"optional int"}
      [] T = "Optional[TestEnum]" -> {"optional enum [value1, value2, 42]"}
      [] T = "List[str]" -> {"list of str"}
      [] T = "Dict[str, int]" -> {"dictionary with str keys and int values"}
      [] OTHER -> {}

C24_ExpectedAndReceived ==
    C24_CoercionFailed =>
        /\ output.value.resp.body.kind = "error"
        /\ output.value.resp.body.code = -32602
        /\ Len(output.value.resp.body.data) = 2
        /\ output.value.resp.body.data[1] \in C24_Described(input.signature[1].type)
        /\ output.value.resp.body.data[2] = input.arguments[1].v.t

----------------------------------------------------------------------------
(* C25: the checks of a tools/call run in a fixed order and the first one  *)
(* that fails decides the response: (1) absent or empty params gives       *)
(* InvalidParams, (2) a session that is not live gives ServerError         *)
(* "Invalid or expired session" 404, (3) an unregistered tool name gives   *)
(* MethodNotFound, (4) a missing required argument gives InvalidParams,    *)
(* (5) a value that does not coerce gives InvalidParams; only then is the  *)
(* callable invoked.  Checks (3) to (5) are about params that is an object *)
(* and arguments that is an object or absent; the session lookup itself    *)
(* does not fail.                                                          *)
C25_ToolsCall ==
    /\ JsonRpcPost
    /\ req.body.method = "tools/call"
    /\ Truthy(req.mcp_session_id)
    /\ "get_item" \notin req.faults

C25_Live ==
    GrantedUnexpired(req.mcp_session_id) /\ req.mcp_session_id \notin deleted

C25_Given(name) ==
    \E j \in 1..Len(req.body.params.arguments.items) :
        req.body.params.arguments.items[j].k = name

C25_Coerced(name) ==
    \A j \in 1..Len(req.body.params.arguments.items) :
        req.body.params.arguments.items[j].k = name
            => Coerces(req.body.params.arguments.items[j].v, "int")

C25_CheckOrder ==
    C25_ToolsCall =>
        IF req.body.params.kind = "none" \/ req.body.params.size = 0
        THEN IsError(-32602, "Missing parameters for tools/call", 400) /\ invoked = << >>
        ELSE IF ~C25_Live
        THEN IsError(-32000, "Invalid or expired session", 404) /\ invoked = << >>
        ELSE IF req.body.params.kind # "dict" THEN invoked = << >>
        ELSE IF req.body.params.name # "math"
        THEN /\ resp.body.kind = "error"
             /\ resp.body.code = -32601
             /\ resp.statusCode = 404
             /\ invoked = << >>
        ELSE IF req.body.params.arguments.kind \notin {"absent", "dict"} THEN invoked = << >>
        ELSE IF ~C25_Given("a") \/ ~C25_Given("b")
        THEN /\ resp.body.kind = "error"
             /\ resp.body.code = -32602
             /\ startswith(resp.body.message, "Missing required parameters: ")
             /\ invoked = << >>
        ELSE IF ~C25_Coerced("a") \/ ~C25_Coerced("b")
        THEN /\ resp.body.kind = "error"
             /\ resp.body.code = -32602
             /\ startswith(resp.body.message, "Invalid value for parameter ")
             /\ invoked = << >>
        ELSE invoked = <<"math">>

(* Absent params with a session that was never issued: InvalidParams *)
C25_Witness ==
    /\ C25_ToolsCall
    /\ req.body.params.kind = "none"
    /\ NeverGranted(req.mcp_session_id)
    /\ IsError(-32602, "Missing parameters for tools/call", 400)

----------------------------------------------------------------------------
(* C26: tools/list and ping check only that a session identifier is        *)
(* present, not that it is live: with any non-empty identifier tools/list  *)
(* returns HTTP 200 with the full tool descriptor list in registration     *)
(* order and ping returns HTTP 200 with an empty result; neither reads nor *)
(* changes the session store.                                              *)
C26_ListOrPing ==
    /\ JsonRpcPost
    /\ req.body.method \in {"tools/list", "ping"}
    /\ Truthy(req.mcp_session_id)

C26_NoLivenessCheck ==
    C26_ListOrPing =>
        /\ resp.statusCode = 200
        /\ resp.body.kind = "result"
        /\ req.body.method = "tools/list" =>
              /\ resp.body.result.kind = "tools"
              /\ Len(resp.body.result.tools) = 1
              /\ resp.body.result.tools[1].name = "math"
              /\ resp.body.result.tools[1].description = "Add two numbers together"
              /\ resp.body.result.tools[1].inputSchema.required = <<"a", "b">>
              /\ [j \in 1..2 |-> <<resp.body.result.tools[1].inputSchema.properties[j].name,
                                   resp.body.result.tools[1].inputSchema.properties[j].type>>]
                    = <<(<<"a", "integer">>), (<<"b", "integer">>)>>
        /\ req.body.method = "ping" =>
              /\ resp.body.result.kind = "empty"
              /\ resp.body.result.tools = << >>
              /\ resp.body.result.content = << >>
        /\ StoreUntouched
        /\ invoked = << >>

(* A ping naming a session that a DELETE has removed *)
C26_Witness ==
    /\ C26_ListOrPing
    /\ req.body.method = "ping"
    /\ req.mcp_session_id \in deleted
    /\ ~HasItem(store, req.mcp_session_id)
    /\ resp.statusCode = 200

----------------------------------------------------------------------------
(* C28 as stated: a tool callable is invoked at most once per request and  *)
(* only when the verb is POST with the JSON content type, the method is    *)
(* tools/call, a session identifier is present and the lookup returned a   *)
(* live session, params is non-empty, the tool is registered, no required  *)
(* parameter is missing and every supplied value coerced; on every error   *)
(* path the callable is not invoked and the session's stored data is       *)
(* unchanged.                                                              *)
C28_Checked ==
    /\ JsonRpcPost
    /\ req.body.method = "tools/call"
    /\ Truthy(req.mcp_session_id)
    /\ Len(storeCalls) > 0
    /\ storeCalls[1] = "get_item"
    /\ "get_item" \notin req.faults
    /\ HasItem(storeBefore, req.mcp_session_id)
    /\ storeBefore[req.mcp_session_id].expires_at >= now
    /\ req.body.params.kind = "dict"
    /\ req.body.params.size > 0
    /\ req.body.params.name = "math"
    /\ req.body.params.arguments.kind = "dict"
    /\ C25_Given("a") /\ C25_Given("b")
    /\ C25_Coerced("a") /\ C25_Coerced("b")

C28_InvokedOnce ==
    /\ Len(invoked) <= 1
    /\ invoked # << >> => C28_Checked

C28_AsStated ==
    /\ C28_InvokedOnce
    /\ resp.body.kind = "error" =>
          /\ invoked = << >>
          /\ HasItem(storeBefore, req.mcp_session_id) =>
                /\ HasItem(store, req.mcp_session_id)
                /\ store[req.mcp_session_id].data = storeBefore[req.mcp_session_id].data

(* C28: a tool callable is invoked at most once per request and only when  *)
(* all the checks above held; on every error path except the callable's    *)
(* own failure ("Error executing tool") the callable is not invoked, and   *)
(* on every error path no record is changed: the only record that can go   *)
(* is the expired record of the request's session, removed by the lookup.  *)
C28_InvokedOnlyWhenChecked ==
    /\ C28_InvokedOnce
    /\ resp.body.kind = "error" =>
          /\ invoked # << >> => IsError(-32603, "Error executing tool", 500)
          /\ \A s \in DOMAIN store : HasItem(storeBefore, s) /\ store[s] = storeBefore[s]
          /\ \A s \in DOMAIN storeBefore \ DOMAIN store :
                /\ s = req.mcp_session_id
                /\ storeBefore[s].expires_at < now

(* A value that does not coerce, on a live session that holds data *)
C28_Witness ==
    /\ JsonRpcPost
    /\ req.body.method = "tools/call"
    /\ req.body.params.arguments = BadArguments
    /\ HasItem(storeBefore, req.mcp_session_id)
    /\ storeBefore[req.mcp_session_id].data # NoData
    /\ storeBefore[req.mcp_session_id].expires_at >= now
    /\ req.raises = None
    /\ resp.body.kind = "error"
    /\ resp.body.code = -32602
    /\ invoked = << >>
    /\ store = storeBefore

----------------------------------------------------------------------------
(* C29: the handler's current session and request identifiers never leak   *)
(* across requests handled one after another by the same instance: after   *)
(* a request the identifiers the handler holds, and those that label the   *)
(* response, are the request's own (or the session it created), and a      *)
(* request without a session header is treated as session-less whatever    *)
(* the requests before it carried or created.                              *)
C29_Created(s) ==
    /\ resp.body.kind = "result"
    /\ resp.body.result.kind = "initialize"
    /\ Truthy(s)
    /\ ~HasItem(storeBefore, s)
    /\ HasItem(store, s)

C29_NoLeak ==
    req # NoEvent =>
        /\ request_id \in {None, req.body.id}
        /\ session_id \in {None, req.mcp_session_id} \/ C29_Created(session_id)
        /\ resp.body.kind \in {"error", "result"} => resp.body.id \in {None, req.body.id}
        /\ \A h \in resp.headers :
              h[1] = "MCP-Session-Id" => h[2] = req.mcp_session_id \/ C29_Created(h[2])
        /\ /\ JsonRpcPost
           /\ req.body.method \in {"tools/list", "tools/call", "ping"}
           /\ ~Truthy(req.mcp_session_id)
           => /\ IsError(-32600, "Session required", 400)
              /\ \A h \in resp.headers : h[1] # "MCP-Session-Id"
              /\ StoreUntouched
              /\ ~Truthy(session_id)

(* A ping without a session header after a session has been created *)
C29_Witness ==
    /\ JsonRpcPost
    /\ req.body.method = "ping"
    /\ req.mcp_session_id = None
    /\ issued > 0
    /\ \E s \in DOMAIN store : store[s].expires_at >= now
    /\ IsError(-32600, "Session required", 400)
    /\ session_id = None

----------------------------------------------------------------------------
(* C30: every JSON-RPC response body produced for a POST that parsed and   *)
(* is not a notification carries the id of that request, for results and   *)
(* for every kind of error.                                                *)
C30_IdEchoed ==
    /\ req.httpMethod = "POST"
    /\ ParsePostOk(req)
    /\ validate_method(req.body.method) # NOTIFICATION
    /\ resp.body.kind \in {"error", "result"}
    => resp.body.id = req.body.id

====
